---- MODULE Spec2Model ----
(***************************************************************************)
(* A model of beetmoverscript's destination-resolution engine:             *)
(* task.py (scope resolution, release properties, the Maven artifact-map   *)
(* check, the checksums manifest) and utils.py (template arguments,        *)
(* product name, upload date, destination prefixes, release exclusions,    *)
(* the join point of the uploads, artifact-map entries).                   *)
(*                                                                         *)
(* Strings.  A Python str is modelled as a sequence of symbols.  A symbol  *)
(* is either a separator character (":", "-", "_", "/", "!", "\n", a       *)
(* digit) or a word, a run of letters and digits that no operation of the  *)
(* model ever cuts: the words are the letters of the alphabet.  startswith,*)
(* split, join, `in` and concatenation are computed on these sequences as  *)
(* Python computes them on characters.                                     *)
(*                                                                         *)
(* Dictionaries are functions; a key that may be absent is absent from     *)
(* the DOMAIN.  A call's outcome is a record, either                       *)
(*   [kind |-> "return", val |-> v]   or                                   *)
(*   [kind |-> "raise", exc |-> <exception class>, msgs |-> <lines>].      *)
(***************************************************************************)
EXTENDS Integers, Sequences, FiniteSets, TLC

VARIABLES
    context,    \* the scriptworker Context: task, config, resource_type
    pc,         \* "ready" before the call, "done" after it
    call,       \* the function that was called, with its arguments
    ret,        \* the outcome of the call
    instant,    \* the instant payload.upload_date was written from
    futures,    \* the queued uploads: each one pending, done or failed
    cursor,     \* the target await_and_raise_uploads is waiting on
    log         \* the warnings logged by utils.py, in order

vars == <<context, pc, call, ret, instant, futures, cursor, log>>

-----------------------------------------------------------------------------
(* Bounds of the model. *)

\* The longest task.scopes list.
MaxScopes == 3

\* The longest payload.upstreamArtifacts list.
MaxUpstream == 2

\* The most directories before the timestamp of a path-like upload_date.
MaxPathDepth == 2

-----------------------------------------------------------------------------
(* Python values and outcomes. *)

Return(v) == [kind |-> "return", val |-> v]

Raise(e, lines) == [kind |-> "raise", exc |-> e, msgs |-> lines]

ScriptWorkerTaskException == "ScriptWorkerTaskException"

TaskVerificationError == "TaskVerificationError"

IndexError == "IndexError"

ValueError == "ValueError"

\* None, and a value that is not None, for an optional argument.
None == [is_none |-> TRUE]

Some(v) == [is_none |-> FALSE, val |-> v]

-----------------------------------------------------------------------------
(* str operations. *)

\* s.startswith(p)
StartsWith(s, p) == Len(p) <= Len(s) /\ SubSeq(s, 1, Len(p)) = p

\* s.endswith(p)
EndsWith(s, p) == Len(p) <= Len(s) /\ SubSeq(s, Len(s) - Len(p) + 1, Len(s)) = p

\* sub in s
Contains(s, sub) ==
    \E i \in 1..(Len(s) - Len(sub) + 1) : SubSeq(s, i, i + Len(sub) - 1) = sub

\* s.split(sep)[-1], sep one symbol: what follows the last sep, all of s
\* when s holds none.
SplitLast(s, sep) ==
    LET at == {i \in 1..Len(s) : s[i] = sep}
        last == IF at = {} THEN 0 ELSE CHOOSE i \in at : \A j \in at : j <= i
    IN SubSeq(s, last + 1, Len(s))

\* [x for x in xs for p in prefixes if x.startswith(p)]: x once for every
\* prefix it starts with, in the order of xs.
RECURSIVE ForEachPrefixHit(_, _)
ForEachPrefixHit(xs, prefixes) ==
    IF xs = <<>> THEN <<>>
    ELSE LET x == Head(xs)
             hits == SelectSeq(prefixes, LAMBDA p : StartsWith(x, p))
         IN [i \in 1..Len(hits) |-> x] \o ForEachPrefixHit(Tail(xs), prefixes)

\* [s.split(":")[-1] for s in xs for p in prefixes if s.startswith(p)]
LastPartForEachPrefixHit(xs, prefixes) ==
    LET hits == ForEachPrefixHit(xs, prefixes)
    IN [i \in 1..Len(hits) |-> SplitLast(hits[i], ":")]

\* The symbols of the class [0-9A-Za-z_-]: every word, every digit, "-", "_".
NonIdentSymbols == {":", "/", "!", "\n", ".", " "}

InIdentClass(c) == c \notin NonIdentSymbols

\* re.search("^[0-9A-Za-z_-]+$", s) is not None.  Without re.MULTILINE "^"
\* matches at the start only and "$" at the end or before a final "\n".
ReSearchIdent(s) ==
    LET body == IF Len(s) > 0 /\ s[Len(s)] = "\n" THEN SubSeq(s, 1, Len(s) - 1)
                ELSE s
    IN \/ Len(s) > 0 /\ \A i \in 1..Len(s) : InIdentClass(s[i])
       \/ Len(body) > 0 /\ \A i \in 1..Len(body) : InIdentClass(body[i])

-----------------------------------------------------------------------------
(* task.py: the scope resolver. *)

\* _get_scope_prefixes
_get_scope_prefixes(script_config, sub_namespace) ==
    LET given == script_config.taskcluster_scope_prefixes
        closed == [i \in 1..Len(given) |->
                      IF EndsWith(given[i], <<":">>) THEN given[i]
                      ELSE given[i] \o <<":">>]
    IN [i \in 1..Len(closed) |-> closed[i] \o sub_namespace \o <<":">>]

\* _get_action_prefixes
_get_action_prefixes(script_config) ==
    _get_scope_prefixes(script_config, <<"action">>)

\* _check_scopes_exist_and_all_have_the_same_prefix: TRUE when the for loop
\* breaks, FALSE when its else branch raises.
_check_scopes_exist_and_all_have_the_same_prefix(scopes, prefixes) ==
    \E p \in 1..Len(prefixes) :
        \A i \in 1..Len(scopes) : StartsWith(scopes[i], prefixes[p])

\* _extract_scopes_from_unique_prefix
_extract_scopes_from_unique_prefix(scopes, prefixes) ==
    LET matching == ForEachPrefixHit(scopes, prefixes)
    IN IF _check_scopes_exist_and_all_have_the_same_prefix(matching, prefixes)
       THEN Return(matching)
       ELSE Raise(ScriptWorkerTaskException,
                  <<"Scopes must exist and all have the same prefix">>)

\* The release types some cloud of the configuration marks enabled.
available_resources(script_config) ==
    {release_type \in UNION {DOMAIN script_config.clouds[cloud] :
                                cloud \in DOMAIN script_config.clouds} :
        \E cloud \in DOMAIN script_config.clouds :
            /\ release_type \in DOMAIN script_config.clouds[cloud]
            /\ script_config.clouds[cloud][release_type].enabled}

\* get_task_resource
get_task_resource(ctx) ==
    LET prefixes == _get_scope_prefixes(ctx.config, ctx.resource_type)
        scopes == _extract_scopes_from_unique_prefix(ctx.task.scopes, prefixes)
    IN IF scopes.kind = "raise" THEN scopes
       ELSE
       LET resources == LastPartForEachPrefixHit(scopes.val, prefixes)
       IN IF resources = <<>> THEN Raise(IndexError, <<"list index out of range">>)
          ELSE
          LET resource == resources[1]
              messages ==
                  (IF Len(resources) # 1
                   THEN <<"Only one resource can be used">> ELSE <<>>)
                  \o (IF ~ReSearchIdent(resource)
                      THEN <<"Resource name is malformed">> ELSE <<>>)
                  \o (IF resource \notin available_resources(ctx.config)
                      THEN <<"Invalid resource scope">> ELSE <<>>)
          IN IF messages # <<>> THEN Raise(ScriptWorkerTaskException, messages)
             ELSE Return(resource)

\* get_task_action without its count of the matching scopes.
get_task_action_uncounted(task, script_config, valid_actions) ==
    LET prefixes == _get_action_prefixes(script_config)
        scopes == _extract_scopes_from_unique_prefix(task.scopes, prefixes)
    IN IF scopes.kind = "raise" THEN scopes
       ELSE
       LET actions == LastPartForEachPrefixHit(scopes.val, prefixes)
       IN IF actions = <<>> THEN Raise(IndexError, <<"list index out of range">>)
          ELSE IF ~valid_actions.is_none /\ actions[1] \notin valid_actions.val
          THEN Raise(ScriptWorkerTaskException, <<"Invalid action scope">>)
          ELSE Return(actions[1])

\* get_task_action
get_task_action(task, script_config, valid_actions) ==
    LET prefixes == _get_action_prefixes(script_config)
        scopes == _extract_scopes_from_unique_prefix(task.scopes, prefixes)
    IN IF scopes.kind = "raise" THEN scopes
       ELSE
       LET actions == LastPartForEachPrefixHit(scopes.val, prefixes)
       IN IF actions = <<>> THEN Raise(IndexError, <<"list index out of range">>)
          ELSE
          LET action == actions[1]
              messages ==
                  (IF Len(actions) # 1
                   THEN <<"Only one action type can be used">> ELSE <<>>)
                  \o (IF ~valid_actions.is_none /\ action \notin valid_actions.val
                      THEN <<"Invalid action scope">> ELSE <<>>)
          IN IF messages # <<>> THEN Raise(ScriptWorkerTaskException, messages)
             ELSE Return(action)

-----------------------------------------------------------------------------
(* constants.py *)

PUSH_TO_CANDIDATES == <<"push", "-", "to", "-", "candidates">>

PUSH_TO_RELEASES == <<"push", "-", "to", "-", "releases">>

PUSH_TO_PARTNER == <<"push", "-", "to", "-", "partner">>

PUSH_TO_NIGHTLY == <<"push", "-", "to", "-", "nightly">>

PUSH_TO_MAVEN == <<"push", "-", "to", "-", "maven">>

PROMOTION_ACTIONS == {PUSH_TO_CANDIDATES}

RELEASE_ACTIONS == {PUSH_TO_RELEASES}

PARTNER_REPACK_ACTIONS == {PUSH_TO_PARTNER}

MAVEN_ACTIONS == {PUSH_TO_MAVEN}

STAGE_PLATFORM_MAP ==
    (<<"linux">> :> <<"linux", "-", "i686">>)
    @@ (<<"linux", "-", "devedition">> :> <<"linux", "-", "i686">>)
    @@ (<<"linux64">> :> <<"linux", "-", "x86", "_", "64">>)
    @@ (<<"linux64", "-", "asan", "-", "reporter">>
           :> <<"linux", "-", "x86", "_", "64", "-", "asan", "-", "reporter">>)
    @@ (<<"linux64", "-", "devedition">> :> <<"linux", "-", "x86", "_", "64">>)
    @@ (<<"linux64", "-", "pinebuild">> :> <<"linux", "-", "x86", "_", "64">>)
    @@ (<<"macosx64">> :> <<"mac">>)
    @@ (<<"macosx64", "-", "asan", "-", "reporter">>
           :> <<"mac", "-", "asan", "-", "reporter">>)
    @@ (<<"macosx64", "-", "devedition">> :> <<"mac">>)
    @@ (<<"macosx64", "-", "pinebuild">> :> <<"mac">>)
    @@ (<<"win32", "-", "devedition">> :> <<"win32">>)
    @@ (<<"win64", "-", "devedition">> :> <<"win64">>)
    @@ (<<"win64", "-", "pinebuild">> :> <<"win64">>)
    @@ (<<"win64", "-", "aarch64", "-", "devedition">> :> <<"win64", "-", "aarch64">>)
    @@ (<<"win64", "-", "aarch64", "-", "pinebuild">> :> <<"win64", "-", "aarch64">>)

NORMALIZED_BALROG_PLATFORMS ==
    (<<"linux", "-", "devedition">> :> <<"linux">>)
    @@ (<<"linux64", "-", "devedition">> :> <<"linux64">>)
    @@ (<<"linux64", "-", "pinebuild">> :> <<"linux64">>)
    @@ (<<"macosx64", "-", "devedition">> :> <<"macosx64">>)
    @@ (<<"macosx64", "-", "pinebuild">> :> <<"macosx64">>)
    @@ (<<"win32", "-", "devedition">> :> <<"win32">>)
    @@ (<<"win64", "-", "devedition">> :> <<"win64">>)
    @@ (<<"win64", "-", "pinebuild">> :> <<"win64">>)
    @@ (<<"win64", "-", "aarch64", "-", "devedition">> :> <<"win64", "-", "aarch64">>)
    @@ (<<"win64", "-", "aarch64", "-", "pinebuild">> :> <<"win64", "-", "aarch64">>)

\* NORMALIZED_BALROG_PLATFORMS.copy() updated with the Android entries: the
\* update's entries win (f @@ g takes f where both are defined).
NORMALIZED_FILENAME_PLATFORMS ==
    ((<<"android">> :> <<"android", "-", "arm">>)
     @@ (<<"android", "-", "api", "-", "15">> :> <<"android", "-", "arm">>)
     @@ (<<"android", "-", "api", "-", "15", "-", "old", "-", "id">>
            :> <<"android", "-", "arm">>)
     @@ (<<"android", "-", "api", "-", "16">> :> <<"android", "-", "arm">>)
     @@ (<<"android", "-", "api", "-", "16", "-", "old", "-", "id">>
            :> <<"android", "-", "arm">>)
     @@ (<<"android", "-", "x86">> :> <<"android", "-", "i386">>)
     @@ (<<"android", "-", "x86", "-", "old", "-", "id">> :> <<"android", "-", "i386">>)
     @@ (<<"android", "-", "aarch64">> :> <<"android", "-", "aarch64">>))
    @@ NORMALIZED_BALROG_PLATFORMS

\* mapping.get(key, default)
DictGet(mapping, key, default) ==
    IF key \in DOMAIN mapping THEN mapping[key] ELSE default

-----------------------------------------------------------------------------
(* task.py: release properties. *)

\* get_release_props with platform_mapping[stage_platform] in place of .get().
get_release_props_strict(task, platform_mapping) ==
    LET payload == DictGet(task, "payload", <<>>)
        payload_properties == DictGet(payload, "releaseProperties", <<>>)
        stage_platform == DictGet(payload_properties, "platform", <<>>)
    IN IF DOMAIN payload_properties = {}
       THEN Raise(ScriptWorkerTaskException,
                  <<"could not determine release props file from task payload">>)
       ELSE IF stage_platform \notin DOMAIN platform_mapping
       THEN Raise("KeyError", <<"platform">>)
       ELSE Return([k \in DOMAIN payload_properties \cup {"platform", "stage_platform"} |->
                       IF k = "platform" THEN platform_mapping[stage_platform]
                       ELSE IF k = "stage_platform" THEN stage_platform
                       ELSE payload_properties[k]])

\* get_release_props
get_release_props(task, platform_mapping) ==
    LET payload == DictGet(task, "payload", <<>>)
        payload_properties == DictGet(payload, "releaseProperties", <<>>)
    IN IF DOMAIN payload_properties = {}
       THEN Raise(ScriptWorkerTaskException,
                  <<"could not determine release props file from task payload">>)
       ELSE
       LET stage_platform == DictGet(payload_properties, "platform", <<>>)
           platform == DictGet(platform_mapping, stage_platform, stage_platform)
       IN Return([k \in DOMAIN payload_properties \cup {"platform", "stage_platform"} |->
                     IF k = "platform" THEN platform
                     ELSE IF k = "stage_platform" THEN stage_platform
                     ELSE payload_properties[k]])

-----------------------------------------------------------------------------
(* Letter case.  A word stands for its characters; its case is that of the *)
(* word as written.                                                        *)

\* The words with an upper-case letter, and each one lower-cased.
LowerOfWord ==
    [w \in {"Firefox", "Fennec", "Thunderbird", "Devedition", "Pinebuild", "US"} |->
        CASE w = "Firefox" -> "firefox"
          [] w = "Fennec" -> "fennec"
          [] w = "Thunderbird" -> "thunderbird"
          [] w = "Devedition" -> "devedition"
          [] w = "Pinebuild" -> "pinebuild"
          [] w = "US" -> "us"]

\* s.lower()
Lower(s) == [i \in 1..Len(s) |-> DictGet(LowerOfWord, s[i], s[i])]

\* c.isupper() for the first character c of a non-empty s: that of its
\* first word (a separator or a digit has no case).
FirstIsUpper(s) == s[1] \in DOMAIN LowerOfWord

\* The lower-case words this model capitalizes, and each one capitalized.
CapitalOfWord ==
    [w \in {"devedition", "pinebuild"} |->
        IF w = "devedition" THEN "Devedition" ELSE "Pinebuild"]

\* s.capitalize(): the first character upper-cased, the others lower-cased.
Capitalize(s) ==
    LET low == Lower(s)
    IN [i \in 1..Len(low) |->
           IF i = 1 THEN DictGet(CapitalOfWord, low[i], low[i]) ELSE low[i]]

-----------------------------------------------------------------------------
(* utils.py: action categories and the product name. *)

is_release_action(action) == action \in RELEASE_ACTIONS

is_promotion_action(action) == action \in PROMOTION_ACTIONS

is_partner_action(action) == action \in PARTNER_REPACK_ACTIONS

is_maven_action(action) == action \in MAVEN_ACTIONS

\* The dynamic platforms, in the order the loop of get_product_name visits.
DYNAMIC_PLATFORMS == <<(<<"devedition">>), (<<"pinebuild">>)>>

\* get_product_name that never lower-cases the app name.
get_product_name_keeps_case(task, config, lowercase_app_name) ==
    LET action == get_task_action(task, config, None)
    IN IF action.kind = "raise" THEN action
       ELSE IF action.val = PUSH_TO_RELEASES
       THEN IF "product" \notin DOMAIN task.payload
            THEN Raise(ValueError, <<"product not found in task payload.">>)
            ELSE Return(Lower(task.payload.product))
       ELSE IF "releaseProperties" \notin DOMAIN task.payload
       THEN Raise(ValueError, <<"releaseProperties not found in task payload.">>)
       ELSE IF "appName" \notin DOMAIN task.payload.releaseProperties
       THEN Raise(ValueError, <<"appName not found in task payload.">>)
       ELSE
       LET release_props == get_release_props(task, STAGE_PLATFORM_MAP)
       IN IF release_props.kind = "raise" THEN release_props
          ELSE
          LET appName == task.payload.releaseProperties.appName
              dynamic == SelectSeq(DYNAMIC_PLATFORMS,
                            LAMBDA d : Contains(release_props.val.stage_platform, d))
          IN IF dynamic # <<>>
             THEN IF appName = <<>>
                  THEN Raise(IndexError, <<"string index out of range">>)
                  ELSE IF FirstIsUpper(appName)
                  THEN Return(Capitalize(dynamic[1]))
                  ELSE Return(dynamic[1])
             ELSE Return(appName)

\* get_product_name
get_product_name(task, config, lowercase_app_name) ==
    LET action == get_task_action(task, config, None)
    IN IF action.kind = "raise" THEN action
       ELSE IF action.val = PUSH_TO_RELEASES
       THEN IF "product" \notin DOMAIN task.payload
            THEN Raise(ValueError, <<"product not found in task payload.">>)
            ELSE Return(Lower(task.payload.product))
       ELSE IF "releaseProperties" \notin DOMAIN task.payload
       THEN Raise(ValueError, <<"releaseProperties not found in task payload.">>)
       ELSE IF "appName" \notin DOMAIN task.payload.releaseProperties
       THEN Raise(ValueError, <<"appName not found in task payload.">>)
       ELSE
       LET release_props == get_release_props(task, STAGE_PLATFORM_MAP)
       IN IF release_props.kind = "raise" THEN release_props
          ELSE
          LET given == task.payload.releaseProperties.appName
              appName == IF lowercase_app_name THEN Lower(given) ELSE given
              dynamic == SelectSeq(DYNAMIC_PLATFORMS,
                            LAMBDA d : Contains(release_props.val.stage_platform, d))
          IN IF dynamic # <<>>
             THEN IF appName = <<>>
                  THEN Raise(IndexError, <<"string index out of range">>)
                  ELSE IF FirstIsUpper(appName)
                  THEN Return(Capitalize(dynamic[1]))
                  ELSE Return(dynamic[1])
             ELSE Return(appName)

-----------------------------------------------------------------------------
(* Numbers and text. *)

DigitChars == <<"0", "1", "2", "3", "4", "5", "6", "7", "8", "9">>

IsDigit(c) == \E d \in 1..Len(DigitChars) : DigitChars[d] = c

DigitValue(c) == (CHOOSE d \in 1..Len(DigitChars) : DigitChars[d] = c) - 1

\* The number a run of decimal digits writes.
RECURSIVE DigitsValue(_)
DigitsValue(s) ==
    IF s = <<>> THEN 0
    ELSE DigitsValue(SubSeq(s, 1, Len(s) - 1)) * 10 + DigitValue(s[Len(s)])

\* n >= 0 written in at least width digits, zero-padded on the left.
RECURSIVE Pad(_, _)
Pad(n, width) ==
    IF n < 10 /\ width <= 1 THEN <<DigitChars[n + 1]>>
    ELSE Pad(n \div 10, width - 1) \o <<DigitChars[(n % 10) + 1]>>

\* float(s), for the texts of this model: an optional sign and decimal
\* digits give the number, any other text raises ValueError.
PyFloat(s) ==
    LET negative == s # <<>> /\ s[1] = "-"
        digits == IF negative THEN Tail(s) ELSE s
    IN IF digits # <<>> /\ \A i \in 1..Len(digits) : IsDigit(digits[i])
       THEN Return(IF negative THEN 0 - DigitsValue(digits) ELSE DigitsValue(digits))
       ELSE Raise(ValueError, <<"could not convert string to float">>)

-----------------------------------------------------------------------------
(* arrow: the calendar. *)

IsLeapYear(y) == (y % 4 = 0 /\ y % 100 # 0) \/ y % 400 = 0

DaysInMonth(y, m) ==
    IF m = 2 THEN (IF IsLeapYear(y) THEN 29 ELSE 28)
    ELSE IF m \in {4, 6, 9, 11} THEN 30 ELSE 31

\* arrow.get(timestamp) read in a local time zone one hour east of UTC.
ArrowGetTimestampLocal(timestamp) ==
    LET shifted == timestamp + 3600
        days == shifted \div 86400
        rest == shifted % 86400
        z == days + 719468
        era == z \div 146097
        doe == z - era * 146097
        yoe == (doe - doe \div 1460 + doe \div 36524 - doe \div 146096) \div 365
        doy == doe - (365 * yoe + yoe \div 4 - yoe \div 100)
        mp == (5 * doy + 2) \div 153
        month == IF mp < 10 THEN mp + 3 ELSE mp - 9
    IN [year |-> yoe + era * 400 + (IF month <= 2 THEN 1 ELSE 0),
        month |-> month,
        day |-> doy - (153 * mp + 2) \div 5 + 1,
        hour |-> rest \div 3600,
        minute |-> (rest % 3600) \div 60,
        second |-> rest % 60]

\* arrow.get(timestamp): the UTC date and time of a POSIX timestamp in
\* seconds (the proleptic Gregorian calendar, days counted from 0000-03-01).
ArrowGetTimestamp(timestamp) ==
    LET days == timestamp \div 86400
        rest == timestamp % 86400
        z == days + 719468
        era == z \div 146097
        doe == z - era * 146097
        yoe == (doe - doe \div 1460 + doe \div 36524 - doe \div 146096) \div 365
        doy == doe - (365 * yoe + yoe \div 4 - yoe \div 100)
        mp == (5 * doy + 2) \div 153
        month == IF mp < 10 THEN mp + 3 ELSE mp - 9
    IN [year |-> yoe + era * 400 + (IF month <= 2 THEN 1 ELSE 0),
        month |-> month,
        day |-> doy - (153 * mp + 2) \div 5 + 1,
        hour |-> rest \div 3600,
        minute |-> (rest % 3600) \div 60,
        second |-> rest % 60]

\* arrow.get(text, "YYYY-MM-DD-HH-mm-ss"): four digits of year, then two
\* digits each of month, day, hour, minute and second, "-" between them; a
\* text of another shape, or one that names no date, raises.
ArrowGetFormatted(text) ==
    LET shaped == /\ Len(text) = 19
                  /\ \A i \in 1..19 : IF i \in {5, 8, 11, 14, 17} THEN text[i] = "-"
                                      ELSE IsDigit(text[i])
        dt == [year |-> DigitsValue(SubSeq(text, 1, 4)),
               month |-> DigitsValue(SubSeq(text, 6, 7)),
               day |-> DigitsValue(SubSeq(text, 9, 10)),
               hour |-> DigitsValue(SubSeq(text, 12, 13)),
               minute |-> DigitsValue(SubSeq(text, 15, 16)),
               second |-> DigitsValue(SubSeq(text, 18, 19))]
    IN IF ~shaped THEN Raise("ParserError", <<"Failed to match format">>)
       ELSE IF ~(/\ dt.year >= 1
                 /\ dt.month \in 1..12
                 /\ dt.day \in 1..DaysInMonth(dt.year, dt.month)
                 /\ dt.hour <= 23 /\ dt.minute <= 59 /\ dt.second <= 59)
       THEN Raise(ValueError, <<"out of range">>)
       ELSE Return(dt)

\* The token "YYYY-MM-DD-HH-mm-ss" of a format.
FormatStamp(dt) ==
    Pad(dt.year, 4) \o <<"-">> \o Pad(dt.month, 2) \o <<"-">> \o Pad(dt.day, 2)
    \o <<"-">> \o Pad(dt.hour, 2) \o <<"-">> \o Pad(dt.minute, 2)
    \o <<"-">> \o Pad(dt.second, 2)

\* dt.format("YYYY/MM/YYYY-MM-DD-HH-mm-ss")
ArrowFormat(dt) ==
    Pad(dt.year, 4) \o <<"/">> \o Pad(dt.month, 2) \o <<"/">> \o FormatStamp(dt)

\* The upload_date template argument: the try/except around float() and
\* arrow.get(upload_date, *args).format(...).
normalize_upload_date(upload_date) ==
    LET as_float == PyFloat(upload_date)
        got == IF as_float.kind = "return"
               THEN Return(ArrowGetTimestamp(as_float.val))
               ELSE ArrowGetFormatted(SplitLast(upload_date, "/"))
    IN IF got.kind = "raise" THEN got ELSE Return(ArrowFormat(got.val))

-----------------------------------------------------------------------------
(* Order of str values, for sorted(). *)

\* The symbols of the locales and of the artifact names of this model, in
\* the order of Python's str comparison ("-" < "." < "/" < upper-case <
\* lower-case); no word is the beginning of another.
SymbolOrder ==
    <<"-", ".", "/", "US", "de", "dmg", "en", "fr", "mar", "multi", "target">>

SymbolRank(c) == CHOOSE r \in 1..Len(SymbolOrder) : SymbolOrder[r] = c

\* a < b
RECURSIVE StrLess(_, _)
StrLess(a, b) ==
    IF b = <<>> THEN FALSE
    ELSE IF a = <<>> THEN TRUE
    ELSE IF Head(a) # Head(b) THEN SymbolRank(Head(a)) < SymbolRank(Head(b))
    ELSE StrLess(Tail(a), Tail(b))

\* sorted(list(set(xs)))
RECURSIVE SortedSet(_)
SortedSet(S) ==
    IF S = {} THEN <<>>
    ELSE LET least == CHOOSE x \in S : \A y \in S \ {x} : StrLess(x, y)
         IN <<least>> \o SortedSet(S \ {least})

-----------------------------------------------------------------------------
(* utils.py: the template arguments. *)

\* get_partials_props
get_partials_props(task) ==
    LET partials == DictGet(DictGet(task, "extra", <<>>), "partials", <<>>)
        names == {partials[i].artifact_name : i \in DOMAIN partials}
    IN [n \in names |->
           partials[CHOOSE i \in DOMAIN partials :
                       /\ partials[i].artifact_name = n
                       /\ \A j \in DOMAIN partials :
                              partials[j].artifact_name = n => j <= i]]

\* _check_locale_consistency that looks at the first upstream locale only.
_check_locale_consistency_first_only(locale_in_payload, uniques_locales_in_upstream_artifacts) ==
    IF /\ Len(uniques_locales_in_upstream_artifacts) >= 1
       /\ locale_in_payload # uniques_locales_in_upstream_artifacts[1]
    THEN Raise(TaskVerificationError,
               <<"task.payload.locale does not match the one set in task.payload.upstreamArtifacts">>)
    ELSE Return(None)

\* _check_locale_consistency
_check_locale_consistency(locale_in_payload, uniques_locales_in_upstream_artifacts) ==
    IF Len(uniques_locales_in_upstream_artifacts) > 1
    THEN Raise(TaskVerificationError,
               <<"task.payload.locale is defined but too many locales set in task.payload.upstreamArtifacts">>)
    ELSE IF /\ Len(uniques_locales_in_upstream_artifacts) = 1
            /\ locale_in_payload # uniques_locales_in_upstream_artifacts[1]
    THEN Raise(TaskVerificationError,
               <<"task.payload.locale does not match the one set in task.payload.upstreamArtifacts">>)
    ELSE Return(None)

\* resolve_locales that sets the entry whatever the task declares.
resolve_locales_always(payload) ==
    LET upstream == payload.upstreamArtifacts
        uniques == SortedSet({upstream[i].locale :
                                 i \in {j \in 1..Len(upstream) :
                                           "locale" \in DOMAIN upstream[j]}})
    IN IF "locale" \in DOMAIN payload /\ uniques # <<>>
       THEN LET checked == _check_locale_consistency(payload.locale, uniques)
            IN IF checked.kind = "raise" THEN checked ELSE Return(Some(uniques))
       ELSE IF "locale" \in DOMAIN payload /\ uniques = <<>>
       THEN Return(Some(<<payload.locale>>))
       ELSE Return(Some(uniques))

\* The locales entry of generate_beetmover_template_args: raises, or
\* returns None (no entry) or the list.
resolve_locales(payload) ==
    LET upstream == payload.upstreamArtifacts
        locales_in_upstream_artifacts ==
            {upstream[i].locale : i \in {j \in 1..Len(upstream) :
                                            "locale" \in DOMAIN upstream[j]}}
        uniques_locales_in_upstream_artifacts == SortedSet(locales_in_upstream_artifacts)
    IN IF "locale" \in DOMAIN payload /\ uniques_locales_in_upstream_artifacts # <<>>
       THEN LET checked == _check_locale_consistency(
                               payload.locale, uniques_locales_in_upstream_artifacts)
            IN IF checked.kind = "raise" THEN checked
               ELSE Return(Some(uniques_locales_in_upstream_artifacts))
       ELSE IF uniques_locales_in_upstream_artifacts # <<>>
       THEN Return(Some(uniques_locales_in_upstream_artifacts))
       ELSE IF "locale" \in DOMAIN payload
       THEN Return(Some(<<payload.locale>>))
       ELSE Return(None)

\* isdisjoint({"en-US"}): the "multi" locale forgotten.
IsDisjointFromEnUS(locales) ==
    \A i \in 1..Len(locales) : locales[i] # <<"en", "-", "US">>

\* set(locales).isdisjoint({"en-US", "multi"})
IsDisjointFromDefaults(locales) ==
    \A i \in 1..Len(locales) :
        locales[i] \notin {<<"en", "-", "US">>, <<"multi">>}

\* The template_key of generate_beetmover_template_args.
template_key(product_name, tmpl_bucket, locales) ==
    IF ~locales.is_none /\ locales.val # <<>> /\ IsDisjointFromDefaults(locales.val)
    THEN product_name \o <<"_">> \o tmpl_bucket \o <<"_", "repacks">>
    ELSE product_name \o <<"_">> \o tmpl_bucket

\* takes_payload_version without the partner actions.
takes_payload_version_no_partner(action) ==
    is_promotion_action(action) \/ is_release_action(action)

\* Whether generate_beetmover_template_args takes version and build_number
\* from the payload.
takes_payload_version(action) ==
    is_promotion_action(action) \/ is_release_action(action) \/ is_partner_action(action)

\* generate_beetmover_template_args
generate_beetmover_template_args(ctx) ==
    LET task == ctx.task
        release_props == ctx.release_props
        upload_date == normalize_upload_date(task.payload.upload_date)
    IN IF upload_date.kind = "raise" THEN upload_date
       ELSE
       LET first == [upload_date |-> upload_date.val,
                     version |-> release_props.appVersion,
                     branch |-> release_props.branch,
                     product |-> release_props.appName,
                     stage_platform |-> release_props.stage_platform,
                     platform |-> release_props.platform,
                     buildid |-> release_props.buildid,
                     partials |-> get_partials_props(task),
                     filename_platform |->
                         DictGet(NORMALIZED_FILENAME_PLATFORMS,
                                 release_props.stage_platform,
                                 release_props.stage_platform)]
           versioned == IF takes_payload_version(ctx.action)
                        THEN ("build_number" :> task.payload.build_number)
                             @@ ("version" :> task.payload.version) @@ first
                        ELSE first
           tmpl_bucket == SplitLast(ctx.action, "-")
           locales == resolve_locales(task.payload)
       IN IF locales.kind = "raise" THEN locales
          ELSE
          LET localized == IF locales.val.is_none THEN versioned
                           ELSE ("locales" :> locales.val.val) @@ versioned
              product_name == get_product_name(task, ctx.config, TRUE)
          IN IF product_name.kind = "raise" THEN product_name
             ELSE Return(("template_key" :>
                             template_key(product_name.val, tmpl_bucket, locales.val))
                         @@ localized)

-----------------------------------------------------------------------------
(* The context a run hands to the template-argument builder. *)

\* The actions a task may ask for.
KNOWN_ACTIONS ==
    PROMOTION_ACTIONS \cup RELEASE_ACTIONS \cup PARTNER_REPACK_ACTIONS
    \cup MAVEN_ACTIONS \cup {PUSH_TO_NIGHTLY}

\* The two resolutions that precede the builder: the action from the
\* scopes, the release properties from the payload.
resolved_action(ctx) == get_task_action(ctx.task, ctx.config, Some(KNOWN_ACTIONS))

resolved_release_props(ctx) == get_release_props(ctx.task, STAGE_PLATFORM_MAP)

\* The context with context.action and context.release_props set.
prepared_context(ctx) ==
    [task |-> ctx.task, config |-> ctx.config, resource_type |-> ctx.resource_type,
     action |-> resolved_action(ctx).val,
     release_props |-> resolved_release_props(ctx).val]

-----------------------------------------------------------------------------
(* The inputs. *)

\* All sequences over S of length at most n.
RECURSIVE SeqsUpTo(_, _)
SeqsUpTo(S, n) ==
    IF n = 0 THEN {<<>>}
    ELSE LET shorter == SeqsUpTo(S, n - 1)
         IN shorter \cup {Append(q, x) : q \in {r \in shorter : Len(r) = n - 1}, x \in S}

\* base, and base with key set to each of vals.
WithOptional(base, key, vals) == {base} \cup {(key :> v) @@ base : v \in vals}

RelengPrefix == <<"project", ":", "releng", ":", "beetmover", ":">>

CommPrefix == <<"project", ":", "comm", ":", "thunderbird", ":", "releng", ":", "beetmover", ":">>

ActionScope(prefix, action) == prefix \o <<"action", ":">> \o action

BucketScope(prefix, bucket) == prefix \o <<"bucket", ":">> \o bucket

\* The scopes a task of the model may carry: action and bucket scopes under
\* two prefixes (a well-formed enabled bucket, a disabled one, a malformed
\* one), and a scope of another service.
ScopeUniverse ==
    {ActionScope(RelengPrefix, PUSH_TO_CANDIDATES),
     ActionScope(RelengPrefix, PUSH_TO_NIGHTLY),
     ActionScope(RelengPrefix, <<"bogus">>),
     ActionScope(CommPrefix, PUSH_TO_CANDIDATES),
     BucketScope(RelengPrefix, <<"dep">>),
     BucketScope(RelengPrefix, <<"release">>),
     BucketScope(RelengPrefix, <<"bad", "!">>),
     BucketScope(CommPrefix, <<"dep">>),
     <<"queue", ":", "route", ":", "index">>}

\* config["taskcluster_scope_prefixes"]: one prefix, two prefixes (the first
\* written without its final colon), none.
PrefixConfigs ==
    {<<RelengPrefix>>,
     <<SubSeq(RelengPrefix, 1, Len(RelengPrefix) - 1), CommPrefix>>,
     <<>>}

\* config["clouds"]: cloud -> release type -> settings.
CloudConfigs ==
    {[aws |-> (<<"dep">> :> [enabled |-> TRUE]) @@ (<<"release">> :> [enabled |-> FALSE]),
      gcloud |-> (<<"dep">> :> [enabled |-> FALSE]) @@ (<<"release">> :> [enabled |-> FALSE])],
     [aws |-> (<<"dep">> :> [enabled |-> FALSE]) @@ (<<"bad", "!">> :> [enabled |-> TRUE]),
      gcloud |-> (<<"release">> :> [enabled |-> TRUE])]}

BaseReleaseProps ==
    [appVersion |-> <<"99", ".", "0", "a1">>,
     branch |-> <<"mozilla", "-", "central">>,
     buildid |-> <<"2021", "1001", "000000">>,
     appName |-> <<"firefox">>,
     platform |-> <<"linux64">>]

\* A payload with every field the builder reads: a nightly's.
BasePayload ==
    [upload_date |-> <<"1", "6", "3", "3", "0", "4", "6", "4", "0", "0">>,
     version |-> <<"100", ".", "0">>,
     build_number |-> 2,
     upstreamArtifacts |-> <<>>,
     releaseProperties |-> BaseReleaseProps]

BaseInstant == [year |-> 2021, month |-> 10, day |-> 1, hour |-> 0, minute |-> 0, second |-> 0]

\* No upload is queued and nothing is logged: the state of the upload
\* orchestrator while another part of the program is exercised.
NoUploads == futures = <<>> /\ cursor = 0 /\ log = <<>>

\* Scope resolution: every scope list, prefix list and cloud table.
InitScope ==
    /\ context \in {[task |-> [scopes |-> scopes, payload |-> BasePayload],
                     config |-> [taskcluster_scope_prefixes |-> prefixes, clouds |-> clouds],
                     resource_type |-> <<"bucket">>] :
                        scopes \in SeqsUpTo(ScopeUniverse, MaxScopes),
                        prefixes \in PrefixConfigs,
                        clouds \in CloudConfigs}
    /\ pc = "ready"
    /\ call = [fn |-> "none"]
    /\ ret = [kind |-> "none"]
    /\ NoUploads
    /\ instant = BaseInstant

\* The payloads of the template-argument builder.  upload_date,
\* upstreamArtifacts, version and build_number are always there, and
\* releaseProperties, when it holds anything, holds appName, appVersion,
\* branch and buildid: the builder reads them with no default.
TmplActions == {PUSH_TO_CANDIDATES, PUSH_TO_RELEASES, PUSH_TO_PARTNER, PUSH_TO_NIGHTLY}

TmplScopes ==
    {<<ActionScope(RelengPrefix, action), BucketScope(RelengPrefix, <<"dep">>)>> :
        action \in TmplActions}
    \cup {<<BucketScope(RelengPrefix, <<"dep">>)>>}

TmplAppNames == {<<"Firefox">>, <<"firefox">>, <<>>}

TmplPlatforms ==
    {<<"linux64">>, <<"linux64", "-", "devedition">>, <<"win64", "-", "pinebuild">>,
     <<"android", "-", "api", "-", "16">>, <<"newplat">>}

TmplLocales == {<<"en", "-", "US">>, <<"fr">>, <<"multi">>}

TmplReleaseProps ==
    UNION {WithOptional([appVersion |-> BaseReleaseProps.appVersion,
                         branch |-> BaseReleaseProps.branch,
                         buildid |-> BaseReleaseProps.buildid,
                         appName |-> appName], "platform", TmplPlatforms) :
              appName \in TmplAppNames}

TmplUpstreamArtifacts ==
    SeqsUpTo(WithOptional([taskId |-> <<"taskId">>, paths |-> <<>>, taskType |-> <<"build">>],
                          "locale", TmplLocales),
             MaxUpstream)

TmplPayloads ==
    LET bare == {[upload_date |-> BasePayload.upload_date,
                  version |-> BasePayload.version,
                  build_number |-> BasePayload.build_number,
                  upstreamArtifacts |-> upstream] : upstream \in TmplUpstreamArtifacts}
        with_props == UNION {WithOptional(p, "releaseProperties",
                                          TmplReleaseProps \cup {<<>>}) : p \in bare}
        with_product == UNION {WithOptional(p, "product", {<<"Firefox">>}) : p \in with_props}
    IN UNION {WithOptional(p, "locale", TmplLocales) : p \in with_product}

TmplConfig ==
    [taskcluster_scope_prefixes |-> <<RelengPrefix>>,
     clouds |-> [aws |-> (<<"dep">> :> [enabled |-> TRUE])]]

\* The template-argument builder: every payload, under each action.
InitTmpl ==
    /\ context \in {[task |-> [scopes |-> scopes, payload |-> payload],
                     config |-> TmplConfig,
                     resource_type |-> <<"bucket">>] :
                        scopes \in TmplScopes, payload \in TmplPayloads}
    /\ pc = "ready"
    /\ call = [fn |-> "none"]
    /\ ret = [kind |-> "none"]
    /\ NoUploads
    /\ instant = BaseInstant

\* The instants of the upload dates: around the epoch, leap days, the ends
\* of months and years, the ends of days; their timestamps fit the 32-bit
\* integers of the model checker (1902 to 2037).
Instants ==
    {i \in [year : {1969, 1970, 2000, 2021, 2024, 2037}, month : {1, 2, 3, 10, 12},
            day : {1, 28, 29, 31}, hour : {0, 23}, minute : {0, 59}, second : {0, 59}] :
        i.day <= DaysInMonth(i.year, i.month)}

\* The days from 1970-01-01 to the first day of year y, counted year by year.
DaysBeforeYear(y) ==
    IF y >= 1970
    THEN 365 * (y - 1970) + Cardinality({k \in 1970..(y - 1) : IsLeapYear(k)})
    ELSE 0 - (365 * (1970 - y) + Cardinality({k \in y..1969 : IsLeapYear(k)}))

\* The days from the first day of year y to the first day of its month m.
RECURSIVE DaysBeforeMonth(_, _)
DaysBeforeMonth(y, m) ==
    IF m = 1 THEN 0 ELSE DaysBeforeMonth(y, m - 1) + DaysInMonth(y, m - 1)

\* The POSIX timestamp of an instant.
EpochOf(i) ==
    (DaysBeforeYear(i.year) + DaysBeforeMonth(i.year, i.month) + i.day - 1) * 86400
    + i.hour * 3600 + i.minute * 60 + i.second

\* An integer in decimal.
RECURSIVE NatText(_)
NatText(n) ==
    IF n < 10 THEN <<DigitChars[n + 1]>>
    ELSE NatText(n \div 10) \o <<DigitChars[(n % 10) + 1]>>

IntText(n) == IF n < 0 THEN <<"-">> \o NatText(0 - n) ELSE NatText(n)

Two(n) == <<DigitChars[(n \div 10) + 1], DigitChars[(n % 10) + 1]>>

\* An instant written as YYYY-MM-DD-HH-mm-ss.
WrittenStamp(i) ==
    Two(i.year \div 100) \o Two(i.year % 100) \o <<"-">> \o Two(i.month) \o <<"-">>
    \o Two(i.day) \o <<"-">> \o Two(i.hour) \o <<"-">> \o Two(i.minute) \o <<"-">>
    \o Two(i.second)

\* depth directories, each followed by a slash.
RECURSIVE PathDirs(_)
PathDirs(depth) == IF depth = 0 THEN <<>> ELSE PathDirs(depth - 1) \o <<"dir", "/">>

\* The two ways a payload writes an instant.
UploadDatesOf(i) ==
    {IntText(EpochOf(i))} \cup {PathDirs(d) \o WrittenStamp(i) : d \in 0..MaxPathDepth}

\* The upload date: every instant, written either way, in a nightly's payload.
InitDate ==
    /\ instant \in Instants
    /\ context \in {[task |-> [scopes |-> <<ActionScope(RelengPrefix, PUSH_TO_NIGHTLY),
                                           BucketScope(RelengPrefix, <<"dep">>)>>,
                               payload |-> [BasePayload EXCEPT !.upload_date = text]],
                     config |-> TmplConfig,
                     resource_type |-> <<"bucket">>] :
                        text \in UploadDatesOf(instant)}
    /\ pc = "ready"
    /\ call = [fn |-> "none"]
    /\ ret = [kind |-> "none"]
    /\ NoUploads

-----------------------------------------------------------------------------
(* The calls. *)

GetTaskAction ==
    /\ pc = "ready"
    /\ \E valid_actions \in {None, Some(KNOWN_ACTIONS)} :
          /\ call' = [fn |-> "get_task_action", valid_actions |-> valid_actions]
          /\ ret' = get_task_action(context.task, context.config, valid_actions)
    /\ pc' = "done"
    /\ UNCHANGED <<context, instant, futures, cursor, log>>

GetTaskResource ==
    /\ pc = "ready"
    /\ call' = [fn |-> "get_task_resource"]
    /\ ret' = get_task_resource(context)
    /\ pc' = "done"
    /\ UNCHANGED <<context, instant, futures, cursor, log>>

NextScope == GetTaskAction \/ GetTaskResource

SpecScope == InitScope /\ [][NextScope]_vars

GetReleaseProps ==
    /\ pc = "ready"
    /\ call' = [fn |-> "get_release_props"]
    /\ ret' = get_release_props(context.task, STAGE_PLATFORM_MAP)
    /\ pc' = "done"
    /\ UNCHANGED <<context, instant, futures, cursor, log>>

GetProductName ==
    /\ pc = "ready"
    /\ \E lowercase_app_name \in BOOLEAN :
          /\ call' = [fn |-> "get_product_name", lowercase_app_name |-> lowercase_app_name]
          /\ ret' = get_product_name(context.task, context.config, lowercase_app_name)
    /\ pc' = "done"
    /\ UNCHANGED <<context, instant, futures, cursor, log>>

\* The builder runs once the action and the release properties are resolved.
GenerateBeetmoverTemplateArgs ==
    /\ pc = "ready"
    /\ resolved_action(context).kind = "return"
    /\ resolved_release_props(context).kind = "return"
    /\ call' = [fn |-> "generate_beetmover_template_args"]
    /\ ret' = generate_beetmover_template_args(prepared_context(context))
    /\ pc' = "done"
    /\ UNCHANGED <<context, instant, futures, cursor, log>>

NextTmpl == GetReleaseProps \/ GetProductName \/ GenerateBeetmoverTemplateArgs

SpecTmpl == InitTmpl /\ [][NextTmpl]_vars

SpecDate == InitDate /\ [][NextTmpl]_vars

-----------------------------------------------------------------------------
(* Scope resolution: what is checked. *)

\* The positions of the scopes that start with prefix.
StartingWith(scopes, prefix) == {i \in 1..Len(scopes) : StartsWith(scopes[i], prefix)}

\* The positions of the scopes that start with some prefix of the list.
Recognised(scopes, prefixes) ==
    UNION {StartingWith(scopes, prefixes[p]) : p \in 1..Len(prefixes)}

\* Two or more scopes start with one and the same prefix of the list.
TwoShareAPrefix(scopes, prefixes) ==
    \E p \in 1..Len(prefixes) : Cardinality(StartingWith(scopes, prefixes[p])) >= 2

\* The prefixes the finished call looked for.
PrefixesOfCall ==
    IF call.fn = "get_task_action" THEN _get_action_prefixes(context.config)
    ELSE _get_scope_prefixes(context.config, context.resource_type)

ResolverDone == pc = "done" /\ call.fn \in {"get_task_action", "get_task_resource"}

FailsVerification == ret.kind = "raise" /\ ret.exc = ScriptWorkerTaskException

\* C1: when two or more scopes of the task start with the same recognised
\* prefix (an action prefix for get_task_action, a resource-type prefix for
\* get_task_resource), the resolution returns no value: it raises
\* ScriptWorkerTaskException, whatever the scopes' values are.
C1_SharedPrefixNeverResolves ==
    (ResolverDone /\ TwoShareAPrefix(context.task.scopes, PrefixesOfCall))
        => FailsVerification

\* C1's case: get_task_action has refused two action scopes under one prefix.
C1_Witness ==
    /\ pc = "done"
    /\ call.fn = "get_task_action"
    /\ TwoShareAPrefix(context.task.scopes, PrefixesOfCall)
    /\ Len(context.task.scopes) = 2
    /\ FailsVerification

\* C2: when no scope of the task starts with a recognised prefix,
\* get_task_action and get_task_resource raise ScriptWorkerTaskException:
\* they return no value and raise no other kind of error.
C2_NoMatchFailsVerification ==
    (ResolverDone /\ Recognised(context.task.scopes, PrefixesOfCall) = {})
        => FailsVerification

\* C3: get_task_resource returns the identifier only if exactly one scope
\* matches, the identifier matches ^[0-9A-Za-z_-]+$ and some cloud enables
\* it; otherwise it raises one ScriptWorkerTaskException with a line for
\* every rule that is violated (the count, the name, the resource).
C3_ResourceReportsEveryViolation ==
    (pc = "done" /\ call.fn = "get_task_resource") =>
        LET prefixes == PrefixesOfCall
            matching == Recognised(context.task.scopes, prefixes)
            first == IF matching = {} THEN 0
                     ELSE CHOOSE i \in matching : \A j \in matching : i <= j
            identifier == IF first = 0 THEN <<>>
                          ELSE SplitLast(context.task.scopes[first], ":")
            wrong_count == Cardinality(matching) # 1
            malformed == first # 0 /\ ~ReSearchIdent(identifier)
            unknown == first # 0 /\ identifier \notin available_resources(context.config)
        IN IF ~wrong_count /\ ~malformed /\ ~unknown
           THEN ret = Return(identifier)
           ELSE /\ FailsVerification
                /\ wrong_count => \E i \in 1..Len(ret.msgs) :
                                     ret.msgs[i] \in
                                         {"Only one resource can be used",
                                          "Scopes must exist and all have the same prefix"}
                /\ malformed => \E i \in 1..Len(ret.msgs) :
                                   ret.msgs[i] = "Resource name is malformed"
                /\ unknown => \E i \in 1..Len(ret.msgs) :
                                 ret.msgs[i] = "Invalid resource scope"

-----------------------------------------------------------------------------
(* The template-argument builder: what is checked. *)

Payload == context.task.payload

\* payload.releaseProperties holds something.
HasReleaseProps ==
    "releaseProperties" \in DOMAIN Payload /\ DOMAIN Payload.releaseProperties # {}

\* The platform the build system wrote: releaseProperties.platform, ""
\* when the key is missing.
RawPlatform ==
    IF "platform" \in DOMAIN Payload.releaseProperties
    THEN Payload.releaseProperties.platform ELSE <<>>

\* The locales payload.upstreamArtifacts declares.
UpstreamLocales ==
    {Payload.upstreamArtifacts[i].locale :
        i \in {j \in 1..Len(Payload.upstreamArtifacts) :
                  "locale" \in DOMAIN Payload.upstreamArtifacts[j]}}

\* Every locale the task declares, upstream or in payload.locale.
DeclaredLocales ==
    UpstreamLocales \cup (IF "locale" \in DOMAIN Payload THEN {Payload.locale} ELSE {})

\* The locales the builder resolves: the upstream ones, else payload.locale.
ResolvedLocales == IF UpstreamLocales # {} THEN UpstreamLocales ELSE DeclaredLocales

\* The action of the task: the last part of its action scope.
TaskAction == SplitLast(context.task.scopes[1], ":")

HasActionScope ==
    /\ context.task.scopes # <<>>
    /\ StartsWith(context.task.scopes[1], RelengPrefix \o <<"action", ":">>)

BuilderDone == pc = "done" /\ call.fn = "generate_beetmover_template_args"

BuilderReturned == BuilderDone /\ ret.kind = "return"

\* C4: for releaseProperties that hold something, get_release_props returns
\* a record whose stage_platform is the raw platform and whose platform is
\* STAGE_PLATFORM_MAP's value for it, the raw platform itself when the
\* table lacks it (no error); the builder's filename_platform is
\* NORMALIZED_FILENAME_PLATFORMS' value with the same fallback.
C4_PlatformIdentityFallback ==
    /\ (pc = "done" /\ call.fn = "get_release_props" /\ HasReleaseProps) =>
          /\ ret.kind = "return"
          /\ ret.val.stage_platform = RawPlatform
          /\ ret.val.platform = IF RawPlatform \in DOMAIN STAGE_PLATFORM_MAP
                                THEN STAGE_PLATFORM_MAP[RawPlatform] ELSE RawPlatform
    /\ BuilderReturned =>
          /\ ret.val.stage_platform = RawPlatform
          /\ ret.val.platform = IF RawPlatform \in DOMAIN STAGE_PLATFORM_MAP
                                THEN STAGE_PLATFORM_MAP[RawPlatform] ELSE RawPlatform
          /\ ret.val.filename_platform =
                 IF RawPlatform \in DOMAIN NORMALIZED_FILENAME_PLATFORMS
                 THEN NORMALIZED_FILENAME_PLATFORMS[RawPlatform] ELSE RawPlatform

\* C4's case: a platform no table knows has passed through unchanged.
C4_Witness ==
    /\ pc = "done" /\ call.fn = "get_release_props" /\ HasReleaseProps
    /\ RawPlatform = <<"newplat">>
    /\ ret.kind = "return"
    /\ ret.val.platform = <<"newplat">>

\* C5: template_key is "<product>_<bucket>_repacks" exactly when the
\* resolved locale list is non-empty and holds neither "en-US" nor "multi",
\* and "<product>_<bucket>" in every other case; <bucket> is the last
\* dash-separated word of the action, <product> the product name.
C5_RepacksKeyIffNoDefaultLocale ==
    BuilderReturned =>
        LET product == get_product_name(context.task, context.config, TRUE).val
            bucket == <<TaskAction[Len(TaskAction)]>>
            repacks == /\ ResolvedLocales # {}
                       /\ <<"en", "-", "US">> \notin ResolvedLocales
                       /\ <<"multi">> \notin ResolvedLocales
        IN ret.val.template_key =
               IF repacks THEN product \o <<"_">> \o bucket \o <<"_", "repacks">>
               ELSE product \o <<"_">> \o bucket

\* C5's case: locales ["fr"], firefox, push-to-candidates.
C5_Witness ==
    /\ BuilderReturned
    /\ ResolvedLocales = {<<"fr">>}
    /\ TaskAction = PUSH_TO_CANDIDATES
    /\ ret.val.template_key = <<"firefox", "_", "candidates", "_", "repacks">>

\* C6: when the payload declares a locale and some upstream artifact
\* declares one, the builder returns only if the distinct upstream locales
\* are exactly the payload's locale; if there are several, or one that
\* differs, it raises TaskVerificationError.
C6_LocaleMismatchIsFatal ==
    (BuilderDone /\ "locale" \in DOMAIN Payload /\ UpstreamLocales # {}) =>
        /\ ret.kind = "return" => UpstreamLocales = {Payload.locale}
        /\ UpstreamLocales # {Payload.locale} =>
               ret.kind = "raise" /\ ret.exc = TaskVerificationError

\* C6's case: two upstream locales, of which one is the payload's.
C6_Witness ==
    /\ BuilderDone
    /\ "locale" \in DOMAIN Payload
    /\ Cardinality(UpstreamLocales) = 2
    /\ Payload.locale \in UpstreamLocales
    /\ ret.kind = "raise" /\ ret.exc = TaskVerificationError

\* C7 as claimed: the key `locales` is present only when the upstream
\* artifacts or the payload declare a locale other than "en-US".
C7_LocalesOnlyWithNonDefaultLocale ==
    (BuilderReturned /\ "locales" \in DOMAIN ret.val) =>
        DeclaredLocales \ {<<"en", "-", "US">>} # {}

\* C7, amended: the key `locales` is present only when the upstream
\* artifacts or the payload declare a locale, "en-US" or another.
C7_LocalesOnlyWithDeclaredLocale ==
    (BuilderReturned /\ "locales" \in DOMAIN ret.val) => DeclaredLocales # {}

\* C7's case: only "en-US" is declared, and `locales` is ["en-US"].
C7_Witness ==
    /\ BuilderReturned
    /\ DeclaredLocales = {<<"en", "-", "US">>}
    /\ "locales" \in DOMAIN ret.val
    /\ ret.val.locales = <<(<<"en", "-", "US">>)>>

ProductNameDone ==
    /\ pc = "done"
    /\ call.fn = "get_product_name"
    /\ call.lowercase_app_name
    /\ HasActionScope

\* The first dynamic flavor the raw platform names: "devedition" before
\* "pinebuild", "" when it names neither.
Flavor ==
    IF Contains(RawPlatform, <<"devedition">>) THEN <<"devedition">>
    ELSE IF Contains(RawPlatform, <<"pinebuild">>) THEN <<"pinebuild">>
    ELSE <<>>

\* C8 as claimed: with its default arguments get_product_name returns, for
\* an action other than push-to-releases and a devedition or pinebuild
\* stage platform, the flavor name capitalised when the original appName
\* starts with an upper-case letter and lower-case otherwise; for
\* push-to-releases payload.product; for any other platform the app name
\* (these two read up to letter case).
C8_FlavorFollowsAppNameCase ==
    ProductNameDone =>
        IF TaskAction = PUSH_TO_RELEASES
        THEN "product" \in DOMAIN Payload =>
                 ret \in {Return(Payload.product), Return(Lower(Payload.product))}
        ELSE HasReleaseProps =>
             LET appName == Payload.releaseProperties.appName
             IN IF Flavor = <<>> THEN ret \in {Return(appName), Return(Lower(appName))}
                ELSE appName # <<>> =>
                     ret = Return(IF FirstIsUpper(appName)
                                  THEN (IF Flavor = <<"devedition">>
                                        THEN <<"Devedition">> ELSE <<"Pinebuild">>)
                                  ELSE Flavor)

\* C8, amended: with its default arguments get_product_name lower-cases
\* what it reads.  For an action other than push-to-releases and a
\* devedition or pinebuild stage platform it returns the lower-case flavor
\* name whatever the case of the (non-empty) appName; for push-to-releases
\* payload.product lower-cased; for any other platform appName lower-cased.
C8_FlavorIsLowerCase ==
    ProductNameDone =>
        IF TaskAction = PUSH_TO_RELEASES
        THEN "product" \in DOMAIN Payload => ret = Return(Lower(Payload.product))
        ELSE HasReleaseProps =>
             LET appName == Payload.releaseProperties.appName
             IN IF Flavor = <<>> THEN ret = Return(Lower(appName))
                ELSE appName # <<>> => ret = Return(Flavor)

\* C8's case: appName "Firefox" on a devedition platform gives "devedition".
C8_Witness ==
    /\ ProductNameDone
    /\ TaskAction = PUSH_TO_CANDIDATES
    /\ HasReleaseProps
    /\ Payload.releaseProperties.appName = <<"Firefox">>
    /\ RawPlatform = <<"linux64", "-", "devedition">>
    /\ ret = Return(<<"devedition">>)

\* C9: for push-to-candidates, push-to-releases and push-to-partner the
\* template arguments carry payload.version and payload.build_number; for
\* every other action version is releaseProperties.appVersion and there is
\* no build_number.
C9_VersionFromPayloadForReleases ==
    BuilderReturned =>
        IF TaskAction \in {PUSH_TO_CANDIDATES, PUSH_TO_RELEASES, PUSH_TO_PARTNER}
        THEN /\ ret.val.version = Payload.version
             /\ "build_number" \in DOMAIN ret.val
             /\ ret.val.build_number = Payload.build_number
        ELSE /\ ret.val.version = Payload.releaseProperties.appVersion
             /\ "build_number" \notin DOMAIN ret.val

\* C9's case: a partner push carries the payload's version, not appVersion.
C9_Witness ==
    /\ BuilderReturned
    /\ TaskAction = PUSH_TO_PARTNER
    /\ ret.val.version = <<"100", ".", "0">>
    /\ ret.val.version # Payload.releaseProperties.appVersion
    /\ ret.val.build_number = 2

\* The year and the month of the instant, as written.
WrittenYear == SubSeq(WrittenStamp(instant), 1, 4)

WrittenMonth == SubSeq(WrittenStamp(instant), 6, 7)

\* C10 as claimed: an instant's epoch string and a path that ends in its
\* YYYY-MM-DD-HH-mm-ss stamp normalise to the same argument, of the form
\* YYYY/YYYY-MM-DD-HH-mm-ss.
C10_UploadDateYearThenStamp ==
    BuilderDone =>
        /\ ret.kind = "return"
        /\ ret.val.upload_date = WrittenYear \o <<"/">> \o WrittenStamp(instant)

\* C10, amended: an instant's epoch string and a path that ends in its
\* YYYY-MM-DD-HH-mm-ss stamp normalise to the same argument, of the form
\* YYYY/MM/YYYY-MM-DD-HH-mm-ss: the year, the two-digit month, the stamp.
C10_UploadDateYearMonthThenStamp ==
    BuilderDone =>
        /\ ret.kind = "return"
        /\ ret.val.upload_date =
               WrittenYear \o <<"/">> \o WrittenMonth \o <<"/">> \o WrittenStamp(instant)

\* C10's case: the epoch string "1633046400" has given
\* "2021/10/2021-10-01-00-00-00".
C10_Witness ==
    /\ BuilderReturned
    /\ Payload.upload_date = <<"1", "6", "3", "3", "0", "4", "6", "4", "0", "0">>
    /\ instant = BaseInstant
    /\ ret.val.upload_date =
           <<"2", "0", "2", "1", "/", "1", "0", "/", "2", "0", "2", "1", "-", "1", "0",
             "-", "0", "1", "-", "0", "0", "-", "0", "0", "-", "0", "0">>

-----------------------------------------------------------------------------
(* task.py: the Maven artifact-map check. *)

\* The most destinations an artifact map of the model spreads over its
\* entries and paths.
MaxDestinations == 3

\* A dict is a sequence of <<key, value>> pairs with distinct keys, in
\* insertion order.  d.values()
DictValues(d) == [i \in 1..Len(d) |-> d[i][2]]

\* d.get(key), None when the key is absent.
DictGetItem(d, key) ==
    LET at == {i \in 1..Len(d) : d[i][1] = key}
    IN IF at = {} THEN None ELSE d[CHOOSE i \in at : TRUE][2]

\* The lists of a list of lists, one after the other.
RECURSIVE Concat(_)
Concat(lists) == IF lists = <<>> THEN <<>> ELSE Head(lists) \o Concat(Tail(lists))

\* The index of the last "/" of p, 0 when p holds none.
LastSlash(p) ==
    LET at == {i \in 1..Len(p) : p[i] = "/"}
    IN IF at = {} THEN 0 ELSE CHOOSE i \in at : \A j \in at : j <= i

\* p.rstrip("/")
RECURSIVE RStripSlashes(_)
RStripSlashes(p) ==
    IF p # <<>> /\ p[Len(p)] = "/" THEN RStripSlashes(SubSeq(p, 1, Len(p) - 1)) ELSE p

\* os.path.split(p): what precedes the last "/" without its final slashes
\* (kept when it holds nothing else), and what follows it.
OsPathSplit(p) ==
    LET i == LastSlash(p)
        head == SubSeq(p, 1, i)
    IN [head |-> IF \E k \in 1..Len(head) : head[k] # "/" THEN RStripSlashes(head)
                 ELSE head,
        tail |-> SubSeq(p, i + 1, Len(p))]

\* os.path.basename(p)
OsPathBasename(p) == SubSeq(p, LastSlash(p) + 1, Len(p))

\* The destinations in the order the three loops reach them: entry by
\* entry, path by path, destination by destination.
MavenDestinations(artifactMap) ==
    Concat([e \in 1..Len(artifactMap) |->
               Concat([p \in 1..Len(artifactMap[e].paths) |->
                          DictValues(artifactMap[e].paths)[p].destinations])])

FolderMessage(last_folder, dest, version) ==
    <<"Name of last folder '">> \o last_folder \o <<"' in path '">> \o dest
        \o <<"' does not match payload version '">> \o version \o <<"'">>

FileMessage(version, dest_file, dest) ==
    <<"Cannot find version '">> \o version \o <<"' in file name '">> \o dest_file
        \o <<"'. Path under test: ">> \o dest

\* The first of the two checks a destination fails: "folder", "file", or
\* "ok" when it passes both.
MavenVerdict(dest, version) ==
    LET parts == OsPathSplit(dest)
    IN IF version # OsPathBasename(parts.head) THEN "folder"
       ELSE IF ~Contains(parts.tail, version) THEN "file"
       ELSE "ok"

\* check_maven_artifact_map accepting a last folder that merely holds the
\* version.
check_maven_artifact_map_folder_contains(ctx, version) ==
    LET dests == MavenDestinations(ctx.task.payload.artifactMap)
        Verdict(dest) ==
            LET parts == OsPathSplit(dest)
            IN IF ~Contains(OsPathBasename(parts.head), version) THEN "folder"
               ELSE IF ~Contains(parts.tail, version) THEN "file"
               ELSE "ok"
        bad == {i \in 1..Len(dests) : Verdict(dests[i]) # "ok"}
    IN IF bad = {} THEN Return(None)
       ELSE LET dest == dests[CHOOSE i \in bad : \A j \in bad : i <= j]
                parts == OsPathSplit(dest)
            IN IF Verdict(dest) = "folder"
               THEN Raise(ScriptWorkerTaskException,
                          <<FolderMessage(OsPathBasename(parts.head), dest, version)>>)
               ELSE Raise(ScriptWorkerTaskException,
                          <<FileMessage(version, parts.tail, dest)>>)

check_maven_artifact_map(ctx, version) ==
    LET dests == MavenDestinations(ctx.task.payload.artifactMap)
        bad == {i \in 1..Len(dests) : MavenVerdict(dests[i], version) # "ok"}
    IN IF bad = {} THEN Return(None)
       ELSE LET dest == dests[CHOOSE i \in bad : \A j \in bad : i <= j]
                parts == OsPathSplit(dest)
            IN IF MavenVerdict(dest, version) = "folder"
               THEN Raise(ScriptWorkerTaskException,
                          <<FolderMessage(OsPathBasename(parts.head), dest, version)>>)
               ELSE Raise(ScriptWorkerTaskException,
                          <<FileMessage(version, parts.tail, dest)>>)

\* The payload versions of the model.
MavenVersions == {<<"42", ".", "0">>, <<"43", ".", "0">>}

\* Destinations: the version folder and a versioned file; a deeper path
\* with a doubled slash; a folder that holds the version and more; a file
\* without the version; no folder at all; no file at all.
MavenDestinationUniverse ==
    {<<"42", ".", "0", "/", "firefox", "-", "42", ".", "0", ".", "exe">>,
     <<"maven2", "/", "42", ".", "0", "/", "/", "firefox", "-", "42", ".", "0", ".", "jar">>,
     <<"maven2", "/", "42", ".", "0", "-", "beta", "/", "firefox", "-", "42", ".", "0", ".", "jar">>,
     <<"42", ".", "0", "/", "firefox", ".", "jar">>,
     <<"firefox", "-", "42", ".", "0", ".", "jar">>,
     <<"42", ".", "0", "/">>}

\* Where a destination goes: with the one before it, under a new path of
\* the same entry, or under a new entry.
Cuts == {"destination", "path", "entry"}

PathKey(n) == <<"public", "/", "build", "/", "target">> \o NatText(n)

TaskIdOf(n) == <<"task">> \o NatText(n)

\* The artifact map with one more destination.
AddDestination(artifactMap, dest, cut) ==
    IF artifactMap = <<>> \/ cut = "entry"
    THEN Append(artifactMap,
                [taskId |-> TaskIdOf(Len(artifactMap) + 1),
                 locale |-> <<"en", "-", "US">>,
                 paths |-> <<<<PathKey(1), [destinations |-> <<dest>>]>>>>])
    ELSE LET e == Len(artifactMap)
             paths == artifactMap[e].paths
             p == Len(paths)
         IN IF cut = "path"
            THEN [artifactMap EXCEPT ![e].paths =
                     Append(paths, <<PathKey(p + 1), [destinations |-> <<dest>>]>>)]
            ELSE [artifactMap EXCEPT ![e].paths[p][2].destinations = Append(@, dest)]

RECURSIVE ArtifactMapOf(_, _)
ArtifactMapOf(dests, cuts) ==
    IF dests = <<>> THEN <<>>
    ELSE LET n == Len(dests)
         IN AddDestination(ArtifactMapOf(SubSeq(dests, 1, n - 1), SubSeq(cuts, 1, n - 1)),
                           dests[n], cuts[n])

\* payload.artifactMap: every way to spread up to MaxDestinations
\* destinations over entries and paths.
MavenArtifactMaps ==
    {ArtifactMapOf(dests, cuts) :
        <<dests, cuts>> \in
            UNION {[1..n -> MavenDestinationUniverse] \X [1..n -> Cuts] :
                       n \in 0..MaxDestinations}}

InitMaven ==
    /\ context \in {[task |-> [payload |-> [artifactMap |-> artifactMap]]] :
                        artifactMap \in MavenArtifactMaps}
    /\ pc = "ready"
    /\ call = [fn |-> "none"]
    /\ ret = [kind |-> "none"]
    /\ NoUploads
    /\ instant = BaseInstant

CheckMavenArtifactMap ==
    /\ pc = "ready"
    /\ \E version \in MavenVersions :
          /\ call' = [fn |-> "check_maven_artifact_map", version |-> version]
          /\ ret' = check_maven_artifact_map(context, version)
    /\ pc' = "done"
    /\ UNCHANGED <<context, instant, futures, cursor, log>>

NextMaven == CheckMavenArtifactMap

SpecMaven == InitMaven /\ [][NextMaven]_vars

-----------------------------------------------------------------------------
(* The Maven artifact-map check: what is checked. *)

MavenDone == pc = "done" /\ call.fn = "check_maven_artifact_map"

\* The destinations of the checked map, in the order of the map.
Destinations == MavenDestinations(context.task.payload.artifactMap)

\* The last directory segment and the file name of a destination.
LastFolderOf(dest) == OsPathBasename(OsPathSplit(dest).head)

FileNameOf(dest) == OsPathSplit(dest).tail

\* The positions of the destinations whose last folder or file name does
\* not hold the version.
NotHoldingVersion ==
    {i \in 1..Len(Destinations) :
        \/ ~Contains(LastFolderOf(Destinations[i]), call.version)
        \/ ~Contains(FileNameOf(Destinations[i]), call.version)}

\* The positions of the destinations whose last folder is not the version
\* or whose file name does not hold it.
NotOfVersion ==
    {i \in 1..Len(Destinations) :
        \/ LastFolderOf(Destinations[i]) # call.version
        \/ ~Contains(FileNameOf(Destinations[i]), call.version)}

First(S) == CHOOSE i \in S : \A j \in S : i <= j

\* C11, as claimed: check_maven_artifact_map accepts the map if and only if
\* the last folder and the file name of every destination contain the
\* payload version; otherwise it raises ScriptWorkerTaskException about the
\* first destination that violates this.
C11_AcceptsIffVersionContained ==
    MavenDone =>
        /\ (ret = Return(None)) <=> (NotHoldingVersion = {})
        /\ NotHoldingVersion # {} =>
              /\ ret.kind = "raise"
              /\ ret.exc = ScriptWorkerTaskException
              /\ Contains(ret.msgs[1], Destinations[First(NotHoldingVersion)])

\* C11, amended: check_maven_artifact_map accepts the map if and only if
\* the last folder of every destination is exactly the payload version and
\* its file name contains the version; otherwise it raises
\* ScriptWorkerTaskException about the first destination that violates this,
\* and the message names the folder when the folder is the mismatch.
C11_AcceptsIffFolderIsVersion ==
    MavenDone =>
        /\ (ret = Return(None)) <=> (NotOfVersion = {})
        /\ NotOfVersion # {} =>
              LET dest == Destinations[First(NotOfVersion)]
              IN /\ ret.kind = "raise"
                 /\ ret.exc = ScriptWorkerTaskException
                 /\ Len(ret.msgs) = 1
                 /\ Contains(ret.msgs[1], dest)
                 /\ LastFolderOf(dest) # call.version =>
                       StartsWith(ret.msgs[1],
                                  <<"Name of last folder '">> \o LastFolderOf(dest)
                                      \o <<"' in path '">>)

\* A map is rejected for its second destination, whose last folder holds
\* the version and more, after a first destination that passes.
C11_Witness ==
    /\ MavenDone
    /\ Len(Destinations) >= 2
    /\ First(NotOfVersion \cup {Len(Destinations) + 1}) = 2
    /\ LastFolderOf(Destinations[2]) # call.version
    /\ Contains(LastFolderOf(Destinations[2]), call.version)
    /\ ret.kind = "raise"

-----------------------------------------------------------------------------
(* task.py: the checksums manifest. *)

\* The most artifacts context.checksums holds.
MaxArtifacts == 3

\* sorted(d.items()), d a dict whose keys are strings: the pairs in
\* ascending order of their keys.
SortedItems(d) ==
    LET keys == SortedSet({d[i][1] : i \in 1..Len(d)})
    IN [k \in 1..Len(keys) |-> <<keys[k], DictGetItem(d, keys[k])>>]

\* "\n".join(lines)
RECURSIVE JoinLines(_)
JoinLines(lines) ==
    IF lines = <<>> THEN <<>>
    ELSE IF Len(lines) = 1 THEN lines[1]
    ELSE lines[1] \o <<"\n">> \o JoinLines(Tail(lines))

\* "{} {} {} {}".format(values[algo], algo, values["size"], artifact)
ChecksumLine(values, algo, artifact) ==
    <<values[algo], " ", algo, " ">> \o NatText(values.size) \o <<" ">> \o artifact

\* The lines of the items, each with one line per configured algorithm.
ChecksumContent(items, algos) ==
    Concat([i \in 1..Len(items) |->
               [a \in 1..Len(algos) |-> ChecksumLine(items[i][2], algos[a], items[i][1])]])

\* generate_checksums_manifest without sorted(): the artifacts in the order
\* they were recorded.
generate_checksums_manifest_unsorted(ctx) ==
    Return(JoinLines(ChecksumContent(ctx.checksums, ctx.config.checksums_digests)))

generate_checksums_manifest(ctx) ==
    Return(JoinLines(ChecksumContent(SortedItems(ctx.checksums),
                                     ctx.config.checksums_digests)))

\* The artifact names of the model.
ArtifactNames ==
    {<<"target", ".", "dmg">>, <<"target", ".", "mar">>,
     <<"en", "-", "US", "/", "target", ".", "mar">>, <<"target">>}

\* config["checksums_digests"]
DigestConfigs == {<<"sha512">>, <<"sha256", "sha512">>, <<"sha512", "sha256">>, <<>>}

\* The checksums of an artifact: a digest per algorithm and the size, of an
\* empty file or of another one.
ChecksumValues ==
    {[sha256 |-> "e3b0c442", sha512 |-> "cf83e135", size |-> 0],
     [sha256 |-> "9f86d081", sha512 |-> "ee26b0dd", size |-> 1048576]}

\* context.checksums: up to MaxArtifacts artifacts, recorded in any order.
ChecksumDicts ==
    {d \in UNION {[1..n -> ArtifactNames \X ChecksumValues] : n \in 0..MaxArtifacts} :
        \A i, j \in 1..Len(d) : i # j => d[i][1] # d[j][1]}

InitChecksums ==
    /\ context \in {[checksums |-> checksums, config |-> [checksums_digests |-> algos]] :
                        checksums \in ChecksumDicts, algos \in DigestConfigs}
    /\ pc = "ready"
    /\ call = [fn |-> "none"]
    /\ ret = [kind |-> "none"]
    /\ NoUploads
    /\ instant = BaseInstant

GenerateChecksumsManifest ==
    /\ pc = "ready"
    /\ call' = [fn |-> "generate_checksums_manifest"]
    /\ ret' = generate_checksums_manifest(context)
    /\ pc' = "done"
    /\ UNCHANGED <<context, instant, futures, cursor, log>>

NextChecksums == GenerateChecksumsManifest

SpecChecksums == InitChecksums /\ [][NextChecksums]_vars

-----------------------------------------------------------------------------
(* The checksums manifest: what is checked. *)

ChecksumsDone == pc = "done" /\ call.fn = "generate_checksums_manifest"

\* The lines of a text: what its "\n" separate; no line for the empty text.
RECURSIVE LinesOf(_)
LinesOf(text) ==
    IF text = <<>> THEN <<>>
    ELSE LET at == {i \in 1..Len(text) : text[i] = "\n"}
         IN IF at = {} THEN <<text>>
            ELSE LET i == First(at)
                 IN <<SubSeq(text, 1, i - 1)>> \o
                        (IF i = Len(text) THEN <<<<>>>> ELSE LinesOf(SubSeq(text, i + 1, Len(text))))

\* The place of the i-th recorded artifact among the recorded names in
\* ascending order.
NameRank(i) ==
    1 + Cardinality({j \in 1..Len(context.checksums) :
                        StrLess(context.checksums[j][1], context.checksums[i][1])})

\* C12: the manifest is a function of the set of entries and of the list of
\* algorithms alone, whatever order the entries were recorded in: it has
\* exactly one line "<hexdigest> <algorithm> <size> <artifact-name>" per
\* artifact and algorithm, the artifacts in ascending order of their names
\* and, for one artifact, the algorithms in the configured order.
C12_ManifestSortedByArtifact ==
    ChecksumsDone =>
        /\ ret.kind = "return"
        /\ LET lines == LinesOf(ret.val)
               algos == context.config.checksums_digests
               n == Len(context.checksums)
               k == Len(algos)
           IN /\ Len(lines) = n * k
              /\ \A i \in 1..n : \A a \in 1..k :
                    lines[(NameRank(i) - 1) * k + a] =
                        <<context.checksums[i][2][algos[a]], " ", algos[a], " ">>
                            \o NatText(context.checksums[i][2].size) \o <<" ">>
                            \o context.checksums[i][1]

\* Three artifacts recorded in descending order of their names, with two
\* algorithms: six lines.
C12_Witness ==
    /\ ChecksumsDone
    /\ Len(context.checksums) = 3
    /\ StrLess(context.checksums[3][1], context.checksums[2][1])
    /\ StrLess(context.checksums[2][1], context.checksums[1][1])
    /\ context.config.checksums_digests = <<"sha512", "sha256">>
    /\ Len(LinesOf(ret.val)) = 6

-----------------------------------------------------------------------------
(* constants.py, utils.py: destination prefixes and the release exclusions. *)

\* The largest build number of the model.
MaxBuildNumber == 2

\* The longest list of patterns, other than RELEASE_EXCLUDE in its rotations,
\* that a key is matched against.
MaxPatterns == 2

KeyError == "KeyError"

PRODUCT_TO_PATH ==
    (<<"mobile">> :> <<"pub", "/", "mobile", "/">>)
    @@ (<<"fennec">> :> <<"pub", "/", "mobile", "/">>)
    @@ (<<"devedition">> :> <<"pub", "/", "devedition", "/">>)
    @@ (<<"pinebuild">> :> <<"pub", "/", "pinebuild", "/">>)
    @@ (<<"firefox">> :> <<"pub", "/", "firefox", "/">>)
    @@ (<<"thunderbird">> :> <<"pub", "/", "thunderbird", "/">>)
    @@ (<<"vpn">> :> <<"pub", "/", "vpn", "/">>)

\* PRODUCT_TO_PATH[product]
ProductPath(product) ==
    IF product \in DOMAIN PRODUCT_TO_PATH THEN Return(PRODUCT_TO_PATH[product])
    ELSE Raise(KeyError, <<product>>)

get_candidates_prefix(product, version, build_number) ==
    LET path == ProductPath(product)
    IN IF path.kind = "raise" THEN path
       ELSE Return(path.val \o <<"candidates", "/">> \o version
                       \o <<"-", "candidates", "/", "build">> \o NatText(build_number)
                       \o <<"/">>)

get_releases_prefix(product, version) ==
    LET path == ProductPath(product)
    IN IF path.kind = "raise" THEN path
       ELSE Return(path.val \o <<"releases", "/">> \o version \o <<"/">>)

\* get_partner_candidates_prefix with a slash between the prefix and
\* "partner-repacks".
get_partner_candidates_prefix_slash(prefix, partner) ==
    prefix \o <<"/", "partner", "-", "repacks", "/">> \o partner \o <<"/", "v1", "/">>

get_partner_candidates_prefix(prefix, partner) ==
    prefix \o <<"partner", "-", "repacks", "/">> \o partner \o <<"/", "v1", "/">>

get_partner_releases_prefix(product, version, partner) ==
    LET path == ProductPath(product)
    IN IF path.kind = "raise" THEN path
       ELSE Return(path.val \o <<"releases", "/", "partners", "/">> \o partner
                       \o <<"/">> \o version \o <<"/">>)

\* The characters of the words of this model; any other symbol is a single
\* character.
Letters ==
    ("pub" :> <<"p", "u", "b">>)
    @@ ("mobile" :> <<"m", "o", "b", "i", "l", "e">>)
    @@ ("devedition" :> <<"d", "e", "v", "e", "d", "i", "t", "i", "o", "n">>)
    @@ ("pinebuild" :> <<"p", "i", "n", "e", "b", "u", "i", "l", "d">>)
    @@ ("firefox" :> <<"f", "i", "r", "e", "f", "o", "x">>)
    @@ ("thunderbird" :> <<"t", "h", "u", "n", "d", "e", "r", "b", "i", "r", "d">>)
    @@ ("vpn" :> <<"v", "p", "n">>)
    @@ ("focus" :> <<"f", "o", "c", "u", "s">>)
    @@ ("candidates" :> <<"c", "a", "n", "d", "i", "d", "a", "t", "e", "s">>)
    @@ ("releases" :> <<"r", "e", "l", "e", "a", "s", "e", "s">>)
    @@ ("partners" :> <<"p", "a", "r", "t", "n", "e", "r", "s">>)
    @@ ("partner" :> <<"p", "a", "r", "t", "n", "e", "r">>)
    @@ ("repacks" :> <<"r", "e", "p", "a", "c", "k", "s">>)
    @@ ("build" :> <<"b", "u", "i", "l", "d">>)
    @@ ("v1" :> <<"v", "1">>)
    @@ ("tests" :> <<"t", "e", "s", "t", "s">>)
    @@ ("crashreporter" :> <<"c", "r", "a", "s", "h", "r", "e", "p", "o", "r", "t", "e", "r">>)
    @@ ("jsshell" :> <<"j", "s", "s", "h", "e", "l", "l">>)
    @@ ("zip" :> <<"z", "i", "p">>)
    @@ ("asc" :> <<"a", "s", "c">>)
    @@ ("log" :> <<"l", "o", "g">>)
    @@ ("txt" :> <<"t", "x", "t">>)
    @@ ("checksums" :> <<"c", "h", "e", "c", "k", "s", "u", "m", "s">>)
    @@ ("logs" :> <<"l", "o", "g", "s">>)
    @@ ("json" :> <<"j", "s", "o", "n">>)
    @@ ("host" :> <<"h", "o", "s", "t">>)
    @@ ("mar" :> <<"m", "a", "r">>)
    @@ ("tools" :> <<"t", "o", "o", "l", "s">>)
    @@ ("robocop" :> <<"r", "o", "b", "o", "c", "o", "p">>)
    @@ ("apk" :> <<"a", "p", "k">>)
    @@ ("contrib" :> <<"c", "o", "n", "t", "r", "i", "b">>)
    @@ ("beetmover" :> <<"b", "e", "e", "t", "m", "o", "v", "e", "r">>)
    @@ ("tar" :> <<"t", "a", "r">>)
    @@ ("bz2" :> <<"b", "z", "2">>)
    @@ ("target" :> <<"t", "a", "r", "g", "e", "t">>)
    @@ ("linux" :> <<"l", "i", "n", "u", "x">>)
    @@ ("symbols" :> <<"s", "y", "m", "b", "o", "l", "s">>)
    @@ ("100" :> <<"1", "0", "0">>)
    @@ ("99" :> <<"9", "9">>)
    @@ ("b3" :> <<"b", "3">>)
    @@ ("acme" :> <<"a", "c", "m", "e">>)
    @@ ("corp" :> <<"c", "o", "r", "p">>)
    @@ ("mochitest" :> <<"m", "o", "c", "h", "i", "t", "e", "s", "t">>)
    @@ ("hostutils" :> <<"h", "o", "s", "t", "u", "t", "i", "l", "s">>)
    @@ ("langpack" :> <<"l", "a", "n", "g", "p", "a", "c", "k">>)
    @@ ("xpi" :> <<"x", "p", "i">>)
    @@ ("contests" :> <<"c", "o", "n", "t", "e", "s", "t", "s">>)

\* The characters of a string.
Spell(s) ==
    Concat([i \in 1..Len(s) |-> IF s[i] \in DOMAIN Letters THEN Letters[s[i]] ELSE <<s[i]>>])

\* The regular expressions of RELEASE_EXCLUDE have three shapes:
\*   ^.*L.*$  and  ^.*L.*      L is found anywhere in the key;
\*   ^.*(L1|L2)$               the key ends with L1 or L2;
\*   ^(?!.*N).*(L1|L2)$        the same, unless N is found in the key.
\* L is a list of characters, AnyChar standing for an unescaped ".".  The
\* keys hold no line break, so "." matches each of their characters.
AnyChar == "<any>"

Anywhere(literal) == [unless |-> <<>>, anchor |-> "search", alts |-> <<Spell(literal)>>]

AtEnd(literals) ==
    [unless |-> <<>>, anchor |-> "end",
     alts |-> [a \in 1..Len(literals) |-> Spell(literals[a])]]

AtEndUnless(literals, negative) ==
    [unless |-> Spell(negative), anchor |-> "end",
     alts |-> [a \in 1..Len(literals) |-> Spell(literals[a])]]

\* RELEASE_EXCLUDE with partner_repacks for partner-repacks.
RELEASE_EXCLUDE_partner_underscore ==
    <<Anywhere(<<"tests">>),
      Anywhere(<<"crashreporter">>),
      AtEndUnless(<<<<".", "zip">>, <<".", "zip", ".", "asc">>>>, <<"jsshell", "-">>),
      AtEnd(<<<<".", "log">>>>),
      AtEnd(<<<<".", "txt">>>>),
      Anywhere(<<"/", "partner", "_", "repacks">>),
      AtEnd(<<<<AnyChar, "checksums">>, <<AnyChar, "checksums", ".", "asc">>>>),
      Anywhere(<<"/", "logs", "/">>),
      AtEnd(<<<<"json">>>>),
      Anywhere(<<"/", "host">>),
      Anywhere(<<"/", "mar", "-", "tools", "/">>),
      AtEnd(<<<<"robocop", AnyChar, "apk">>>>),
      Anywhere(<<"contrib">>),
      Anywhere(<<"/", "beetmover", "-", "checksums", "/">>)>>

RELEASE_EXCLUDE ==
    <<Anywhere(<<"tests">>),
      Anywhere(<<"crashreporter">>),
      AtEndUnless(<<<<".", "zip">>, <<".", "zip", ".", "asc">>>>, <<"jsshell", "-">>),
      AtEnd(<<<<".", "log">>>>),
      AtEnd(<<<<".", "txt">>>>),
      Anywhere(<<"/", "partner", "-", "repacks">>),
      AtEnd(<<<<AnyChar, "checksums">>, <<AnyChar, "checksums", ".", "asc">>>>),
      Anywhere(<<"/", "logs", "/">>),
      AtEnd(<<<<"json">>>>),
      Anywhere(<<"/", "host">>),
      Anywhere(<<"/", "mar", "-", "tools", "/">>),
      AtEnd(<<<<"robocop", AnyChar, "apk">>>>),
      Anywhere(<<"contrib">>),
      Anywhere(<<"/", "beetmover", "-", "checksums", "/">>)>>

\* The literal is found in chars from position i on.
LiteralAt(literal, chars, i) ==
    /\ i >= 1
    /\ i + Len(literal) - 1 <= Len(chars)
    /\ \A k \in 1..Len(literal) : literal[k] = AnyChar \/ literal[k] = chars[i + k - 1]

LiteralIn(literal, chars) == \E i \in 1..(Len(chars) + 1) : LiteralAt(literal, chars, i)

\* re.search(exclude, keyname) is not None
ReSearch(exclude, keyname) ==
    LET chars == Spell(keyname)
    IN /\ exclude.unless = <<>> \/ ~LiteralIn(exclude.unless, chars)
       /\ \E a \in 1..Len(exclude.alts) :
             IF exclude.anchor = "end"
             THEN LiteralAt(exclude.alts[a], chars, Len(chars) - Len(exclude.alts[a]) + 1)
             ELSE LiteralIn(exclude.alts[a], chars)

\* matches_exclude trying the first pattern only.
matches_exclude_first_only(keyname, excludes) ==
    Return(excludes # <<>> /\ ReSearch(excludes[1], keyname))

RECURSIVE matches_exclude(_, _)
matches_exclude(keyname, excludes) ==
    IF excludes = <<>> THEN Return(FALSE)
    ELSE IF ReSearch(Head(excludes), keyname) THEN Return(TRUE)
    ELSE matches_exclude(keyname, Tail(excludes))

\* The partner is an optional value: Some(partner), or None.
RECURSIVE get_partner_match(_, _, _)
get_partner_match(keyname, candidates_prefix, partners) ==
    IF partners = <<>> THEN Return(None)
    ELSE IF StartsWith(keyname, get_partner_candidates_prefix(candidates_prefix, Head(partners)))
    THEN Return(Some(Head(partners)))
    ELSE get_partner_match(keyname, candidates_prefix, Tail(partners))


\* The products of the model: those of PRODUCT_TO_PATH and one it lacks.
Products == DOMAIN PRODUCT_TO_PATH \cup {<<"focus">>}

PrefixVersions == {<<"100", ".", "0">>, <<"99", ".", "0", "b3">>}

PartnerNames == {<<"acme">>, <<"acme", "-", "corp">>}

\* What follows a prefix in a key: a product tarball, a log, zips, a
\* checksums signature, names that hold "tests" or "host" inside a word or
\* nearly so, a language pack, nothing.
FileNames ==
    {<<"firefox", "-", "100", ".", "0", ".", "tar", ".", "bz2">>,
     <<"logs", "/", "log", ".", "txt">>,
     <<"jsshell", "-", "linux", ".", "zip">>,
     <<"firefox", ".", "zip">>,
     <<"target", ".", "checksums", ".", "asc">>,
     <<"contests", ".", "tar">>,
     <<"hostutils", ".", "tar">>,
     <<"mochitest", ".", "tar">>,
     <<"target", ".", "langpack", ".", "xpi">>,
     <<>>}

\* The value a call returned, the empty string when it raised.
ValueOr(outcome) == IF outcome.kind = "return" THEN outcome.val ELSE <<>>

\* The keys of a release: under its candidates prefix, under the partner
\* prefixes built from it, under its releases prefix.
KeysOf(product, version, build_number) ==
    LET candidates == ValueOr(get_candidates_prefix(product, version, build_number))
        bases == {candidates, ValueOr(get_releases_prefix(product, version))}
                     \cup {get_partner_candidates_prefix(candidates, partner) :
                               partner \in PartnerNames}
    IN {base \o name : base \in bases, name \in FileNames}

\* RELEASE_EXCLUDE from its n-th pattern on, then its first n - 1 patterns.
Rotated(patterns, n) ==
    SubSeq(patterns, n, Len(patterns)) \o SubSeq(patterns, 1, n - 1)

Reversed(patterns) == [i \in 1..Len(patterns) |-> patterns[Len(patterns) + 1 - i]]

\* The pattern lists a key is matched against: RELEASE_EXCLUDE in every
\* rotation and backwards, and every short list of four of its patterns
\* (zips, .txt, partner repacks, logs).
ExcludeLists ==
    {Rotated(RELEASE_EXCLUDE, n) : n \in 1..Len(RELEASE_EXCLUDE)}
        \cup {Reversed(RELEASE_EXCLUDE)}
        \cup SeqsUpTo({RELEASE_EXCLUDE[3], RELEASE_EXCLUDE[5],
                       RELEASE_EXCLUDE[6], RELEASE_EXCLUDE[8]}, MaxPatterns)

InitPrefix ==
    /\ context \in UNION {{[product |-> product, version |-> version,
                             build_number |-> build_number, keyname |-> keyname] :
                                keyname \in KeysOf(product, version, build_number)} :
                               product \in Products, version \in PrefixVersions,
                               build_number \in 1..MaxBuildNumber}
    /\ pc = "ready"
    /\ call = [fn |-> "none"]
    /\ ret = [kind |-> "none"]
    /\ NoUploads
    /\ instant = BaseInstant

GetCandidatesPrefix ==
    /\ pc = "ready"
    /\ call' = [fn |-> "get_candidates_prefix"]
    /\ ret' = get_candidates_prefix(context.product, context.version, context.build_number)
    /\ pc' = "done"
    /\ UNCHANGED <<context, instant, futures, cursor, log>>

GetReleasesPrefix ==
    /\ pc = "ready"
    /\ call' = [fn |-> "get_releases_prefix"]
    /\ ret' = get_releases_prefix(context.product, context.version)
    /\ pc' = "done"
    /\ UNCHANGED <<context, instant, futures, cursor, log>>

\* The partner prefix is built from the candidates prefix of the release.
GetPartnerCandidatesPrefix ==
    /\ pc = "ready"
    /\ LET prefix == get_candidates_prefix(context.product, context.version,
                                           context.build_number)
       IN /\ prefix.kind = "return"
          /\ \E partner \in PartnerNames :
                /\ call' = [fn |-> "get_partner_candidates_prefix",
                            prefix |-> prefix.val, partner |-> partner]
                /\ ret' = Return(get_partner_candidates_prefix(prefix.val, partner))
    /\ pc' = "done"
    /\ UNCHANGED <<context, instant, futures, cursor, log>>

GetPartnerReleasesPrefix ==
    /\ pc = "ready"
    /\ \E partner \in PartnerNames :
          /\ call' = [fn |-> "get_partner_releases_prefix", partner |-> partner]
          /\ ret' = get_partner_releases_prefix(context.product, context.version, partner)
    /\ pc' = "done"
    /\ UNCHANGED <<context, instant, futures, cursor, log>>

MatchesExclude ==
    /\ pc = "ready"
    /\ \E excludes \in ExcludeLists :
          /\ call' = [fn |-> "matches_exclude", excludes |-> excludes]
          /\ ret' = matches_exclude(context.keyname, excludes)
    /\ pc' = "done"
    /\ UNCHANGED <<context, instant, futures, cursor, log>>

GetPartnerMatch ==
    /\ pc = "ready"
    /\ LET prefix == get_candidates_prefix(context.product, context.version,
                                           context.build_number)
       IN /\ prefix.kind = "return"
          /\ \E partners \in SeqsUpTo(PartnerNames, Cardinality(PartnerNames)) :
                /\ call' = [fn |-> "get_partner_match",
                            candidates_prefix |-> prefix.val, partners |-> partners]
                /\ ret' = get_partner_match(context.keyname, prefix.val, partners)
    /\ pc' = "done"
    /\ UNCHANGED <<context, instant, futures, cursor, log>>

NextPrefix ==
    \/ GetCandidatesPrefix
    \/ GetReleasesPrefix
    \/ GetPartnerCandidatesPrefix
    \/ GetPartnerReleasesPrefix
    \/ MatchesExclude
    \/ GetPartnerMatch

SpecPrefix == InitPrefix /\ [][NextPrefix]_vars


-----------------------------------------------------------------------------
(* Destination prefixes: what is checked. *)

\* s.split("/"): the segments of a path, the last one empty when the path
\* ends with a slash.
RECURSIVE SegmentsOf(_)
SegmentsOf(s) ==
    LET at == {i \in 1..Len(s) : s[i] = "/"}
    IN IF at = {} THEN <<s>>
       ELSE <<SubSeq(s, 1, First(at) - 1)>> \o SegmentsOf(SubSeq(s, First(at) + 1, Len(s)))

\* The segments of the product's path: pub, then the product's directory.
ProductSegments ==
    LET segments == SegmentsOf(PRODUCT_TO_PATH[context.product])
    IN SubSeq(segments, 1, Len(segments) - 1)

CandidatesSegments ==
    ProductSegments \o <<<<"candidates">>,
                         context.version \o <<"-", "candidates">>,
                         <<"build">> \o NatText(context.build_number)>>

PrefixDone ==
    /\ pc = "done"
    /\ call.fn \in {"get_candidates_prefix", "get_releases_prefix",
                    "get_partner_candidates_prefix", "get_partner_releases_prefix"}

\* C13: for a product of PRODUCT_TO_PATH, each prefix is the listed segments
\* with one slash after each of them:
\*   candidates          <product-path> candidates <version>-candidates build<N>
\*   releases            <product-path> releases <version>
\*   partner candidates  <candidates prefix> partner-repacks <partner> v1
\*   partner releases    <product-path> releases partners <partner> <version>
\* and the partner-candidates prefix starts with the candidates prefix it
\* was built from.
C13_PrefixesAreSlashSeparatedSegments ==
    (PrefixDone /\ context.product \in DOMAIN PRODUCT_TO_PATH) =>
        /\ ret.kind = "return"
        /\ call.fn = "get_candidates_prefix" =>
              SegmentsOf(ret.val) = CandidatesSegments \o <<<<>>>>
        /\ call.fn = "get_releases_prefix" =>
              SegmentsOf(ret.val) =
                  ProductSegments \o <<<<"releases">>, context.version, <<>>>>
        /\ call.fn = "get_partner_candidates_prefix" =>
              /\ SegmentsOf(ret.val) =
                     CandidatesSegments
                         \o <<<<"partner", "-", "repacks">>, call.partner, <<"v1">>, <<>>>>
              /\ StartsWith(ret.val, call.prefix)
              /\ SegmentsOf(call.prefix) = CandidatesSegments \o <<<<>>>>
        /\ call.fn = "get_partner_releases_prefix" =>
              SegmentsOf(ret.val) =
                  ProductSegments
                      \o <<<<"releases">>, <<"partners">>, call.partner, context.version, <<>>>>

\* The partner-candidates prefix of acme for Firefox 100.0 build 1 is
\* pub/firefox/candidates/100.0-candidates/build1/partner-repacks/acme/v1/.
C13_Witness ==
    /\ pc = "done"
    /\ call.fn = "get_partner_candidates_prefix"
    /\ ret = Return(<<"pub", "/", "firefox", "/", "candidates", "/", "100", ".", "0", "-",
                      "candidates", "/", "build", "1", "/", "partner", "-", "repacks", "/",
                      "acme", "/", "v1", "/">>)


-----------------------------------------------------------------------------
(* The release exclusions: what is checked. *)

MatchesDone == pc = "done" /\ call.fn = "matches_exclude"

\* The patterns of the list, whatever their order.
PatternsOf(excludes) == {excludes[i] : i \in 1..Len(excludes)}

\* pub/firefox/candidates/100.0-candidates/build1/
Firefox100Build1 ==
    <<"pub", "/", "firefox", "/", "candidates", "/", "100", ".", "0", "-", "candidates",
      "/", "build", "1", "/">>

LogKey == Firefox100Build1 \o <<"logs", "/", "log", ".", "txt">>

TarballKey == Firefox100Build1 \o <<"firefox", "-", "100", ".", "0", ".", "tar", ".", "bz2">>

\* C14: matches_exclude(key, patterns) is true exactly when the key matches
\* at least one pattern of the list, so its result depends on the set of
\* patterns and not on their order, and it is false for the empty list.
\* With the patterns of RELEASE_EXCLUDE in any order, a key with a /logs/
\* directory is excluded and the Firefox 100.0 tarball under its candidates
\* prefix is not.
C14_ExcludedIffSomePatternMatches ==
    MatchesDone =>
        /\ ret.kind = "return"
        /\ ret.val <=> \E exclude \in PatternsOf(call.excludes) :
                          ReSearch(exclude, context.keyname)
        /\ call.excludes = <<>> => ret.val = FALSE
        /\ PatternsOf(call.excludes) = PatternsOf(RELEASE_EXCLUDE) =>
              /\ Contains(context.keyname, <<"/", "logs", "/">>) => ret.val = TRUE
              /\ context.keyname = TarballKey => ret.val = FALSE

\* The log of the Firefox 100.0 build is excluded by RELEASE_EXCLUDE read
\* backwards, where the first pattern tried does not match it.
C14_Witness ==
    /\ MatchesDone
    /\ call.excludes = Reversed(RELEASE_EXCLUDE)
    /\ context.keyname = LogKey
    /\ ~ReSearch(call.excludes[1], context.keyname)
    /\ ret = Return(TRUE)


-----------------------------------------------------------------------------
(* utils.py: the join point of the uploads. *)

\* The most uploads queued over all the targets.
MaxUploads == 3

\* An upload is an asyncio future, named by its number: futures[u] is
\* "pending" until the upload finishes, then "done" or "failed"; the
\* exception of a failed upload carries the upload's number.
UploadException(u) == Raise("UploadError", <<NatText(u)>>)

\* The truth value of an optional boolean.
Truthy(value) == ~value.is_none /\ value.val

\* get_fail_task_on_error reading no configuration: every target is
\* best-effort.
get_fail_task_on_error_unset(clouds_config, release_bucket, cloud) == Return(None)

\* get_fail_task_on_error with True as the default of .get().
get_fail_task_on_error_default_true(clouds_config, release_bucket, cloud) ==
    IF cloud \notin DOMAIN clouds_config THEN Raise(KeyError, <<cloud>>)
    ELSE IF release_bucket \notin DOMAIN clouds_config[cloud]
    THEN Raise(KeyError, <<release_bucket>>)
    ELSE LET settings == clouds_config[cloud][release_bucket]
         IN IF "fail_task_on_error" \in DOMAIN settings
            THEN Return(Some(settings.fail_task_on_error))
            ELSE Return(Some(TRUE))

get_fail_task_on_error(clouds_config, release_bucket, cloud) ==
    IF cloud \notin DOMAIN clouds_config THEN Raise(KeyError, <<cloud>>)
    ELSE IF release_bucket \notin DOMAIN clouds_config[cloud]
    THEN Raise(KeyError, <<release_bucket>>)
    ELSE LET settings == clouds_config[cloud][release_bucket]
         IN IF "fail_task_on_error" \in DOMAIN settings
            THEN Return(Some(settings.fail_task_on_error))
            ELSE Return(None)

\* The tasks with the given state, in the order of the list.
TasksIn(tasks, state, fut) == SelectSeq(tasks, LAMBDA u : fut[u] = state)

\* scriptworker's raise_future_exceptions, once every task has finished: it
\* raises the exception of the first failed task of the list, and returns
\* the results when none failed.
raise_future_exceptions(tasks, fut) ==
    LET failed == TasksIn(tasks, "failed", fut)
    IN IF failed # <<>> THEN UploadException(failed[1])
       ELSE Return(TasksIn(tasks, "done", fut))

\* scriptworker's get_results_and_future_exceptions, once every task has
\* finished: the results and the exceptions, each in the order of the list.
get_results_and_future_exceptions(tasks, fut) ==
    Return(<<TasksIn(tasks, "done", fut), TasksIn(tasks, "failed", fut)>>)

\* log.warning("Skipped exception:"), once for each exception.
SkippedWarnings(ex) ==
    [i \in 1..Len(ex) |-> [level |-> "warning", msg |-> "Skipped exception:", upload |-> ex[i]]]

\* The body of the loop after its await, with a warning for the first
\* exception only.
after_await_first_warning_only(fail_task_on_error, tasks, fut) ==
    IF Truthy(fail_task_on_error)
    THEN [outcome |-> raise_future_exceptions(tasks, fut), warnings |-> <<>>]
    ELSE LET ex == get_results_and_future_exceptions(tasks, fut).val[2]
         IN [outcome |-> Return(None), warnings |-> SkippedWarnings(IF ex = <<>> THEN <<>> ELSE <<ex[1]>>)]

\* The body of the loop after its await, raising the first exception it
\* has logged.
after_await_raising_skipped(fail_task_on_error, tasks, fut) ==
    IF Truthy(fail_task_on_error)
    THEN [outcome |-> raise_future_exceptions(tasks, fut), warnings |-> <<>>]
    ELSE LET ex == get_results_and_future_exceptions(tasks, fut).val[2]
         IN [outcome |-> IF ex = <<>> THEN Return(None) ELSE UploadException(ex[1]),
             warnings |-> SkippedWarnings(ex)]

\* The body of the loop for one target, after its await: the outcome (an
\* exception leaves the function) and the warnings logged.
after_await(fail_task_on_error, tasks, fut) ==
    IF Truthy(fail_task_on_error)
    THEN [outcome |-> raise_future_exceptions(tasks, fut), warnings |-> <<>>]
    ELSE LET ex == get_results_and_future_exceptions(tasks, fut).val[2]
         IN [outcome |-> Return(None), warnings |-> SkippedWarnings(ex)]

\* The loop from the target at position from, reading the policy of a
\* target before the length of its queue.
RECURSIVE loop_until_await_policy_first(_, _, _, _)
loop_until_await_policy_first(cloud_uploads, clouds_config, release_bucket, from) ==
    IF from > Len(cloud_uploads)
    THEN [at |-> from, outcome |-> Return(None)]
    ELSE LET policy == get_fail_task_on_error(clouds_config, release_bucket,
                                              cloud_uploads[from][1])
         IN IF policy.kind = "raise" THEN [at |-> from, outcome |-> policy]
            ELSE IF Len(cloud_uploads[from][2]) = 0
            THEN loop_until_await_policy_first(cloud_uploads, clouds_config,
                                               release_bucket, from + 1)
            ELSE [at |-> from, outcome |-> [kind |-> "await", policy |-> policy.val]]

\* The loop from the target at position from up to its next await: targets
\* with an empty queue are passed over, the policy of the first other one
\* is read and its uploads are awaited; after the last target the function
\* returns.
RECURSIVE loop_until_await(_, _, _, _)
loop_until_await(cloud_uploads, clouds_config, release_bucket, from) ==
    IF from > Len(cloud_uploads)
    THEN [at |-> from, outcome |-> Return(None)]
    ELSE IF Len(cloud_uploads[from][2]) = 0
    THEN loop_until_await(cloud_uploads, clouds_config, release_bucket, from + 1)
    ELSE LET policy == get_fail_task_on_error(clouds_config, release_bucket,
                                              cloud_uploads[from][1])
         IN IF policy.kind = "raise" THEN [at |-> from, outcome |-> policy]
            ELSE [at |-> from, outcome |-> [kind |-> "await", policy |-> policy.val]]


\* The targets of the model.
Clouds == {"aws", "gcloud"}

\* The settings of a target for the release bucket: fail_task_on_error
\* true, false or not set.
BucketSettings ==
    {[enabled |-> TRUE],
     [enabled |-> TRUE, fail_task_on_error |-> TRUE],
     [enabled |-> TRUE, fail_task_on_error |-> FALSE]}

\* The configuration of one target: settings for the release bucket, or
\* for another bucket only.
TargetConfigs ==
    {("release" :> settings) : settings \in BucketSettings}
        \cup {("dep" :> [enabled |-> TRUE])}

\* The uploads of the assignment that go to the cloud, in their order.
QueueOf(assignment, cloud) ==
    SelectSeq([u \in 1..Len(assignment) |-> u], LAMBDA u : assignment[u] = cloud)

\* cloud_uploads: a queue for every configured cloud, in either order of the
\* clouds; up to MaxUploads uploads, each queued on one cloud.
CloudUploads ==
    {[i \in 1..Len(order) |-> <<order[i], QueueOf(assignment, order[i])>>] :
        order \in {<<"aws", "gcloud">>, <<"gcloud", "aws">>},
        assignment \in UNION {[1..n -> Clouds] : n \in 0..MaxUploads}}

\* The number of uploads queued.
RECURSIVE QueuedCount(_)
QueuedCount(cloud_uploads) ==
    IF cloud_uploads = <<>> THEN 0
    ELSE Len(Head(cloud_uploads)[2]) + QueuedCount(Tail(cloud_uploads))

\* An upload is queued on a cloud only when the cloud is enabled for the
\* release bucket: a target without settings for the bucket has an empty
\* queue.
InitUploads ==
    /\ context \in {c \in [cloud_uploads : CloudUploads,
                           clouds_config : [Clouds -> TargetConfigs],
                           release_bucket : {"release"}] :
                       \A i \in 1..Len(c.cloud_uploads) :
                           \/ Len(c.cloud_uploads[i][2]) = 0
                           \/ c.release_bucket \in DOMAIN c.clouds_config[c.cloud_uploads[i][1]]}
    /\ futures = [u \in 1..QueuedCount(context.cloud_uploads) |-> "pending"]
    /\ cursor = 0
    /\ log = <<>>
    /\ pc = "ready"
    /\ call = [fn |-> "none"]
    /\ ret = [kind |-> "none"]
    /\ instant = BaseInstant

\* An upload finishes, at any time after it was queued.
UploadSucceeds ==
    /\ \E u \in DOMAIN futures :
          /\ futures[u] = "pending"
          /\ futures' = [futures EXCEPT ![u] = "done"]
    /\ UNCHANGED <<context, pc, call, ret, instant, cursor, log>>

UploadFails ==
    /\ \E u \in DOMAIN futures :
          /\ futures[u] = "pending"
          /\ futures' = [futures EXCEPT ![u] = "failed"]
    /\ UNCHANGED <<context, pc, call, ret, instant, cursor, log>>

\* await_and_raise_uploads is called: it runs up to its first await, or to
\* its end when no target has an upload queued.
AwaitAndRaiseUploads ==
    /\ pc = "ready"
    /\ LET step == loop_until_await(context.cloud_uploads, context.clouds_config,
                                    context.release_bucket, 1)
       IN /\ cursor' = step.at
          /\ IF step.outcome.kind = "await"
             THEN pc' = "awaiting" /\ ret' = ret
             ELSE pc' = "done" /\ ret' = step.outcome
    /\ call' = [fn |-> "await_and_raise_uploads"]
    /\ UNCHANGED <<context, instant, futures, log>>

\* Every upload of the awaited target has finished: the function resumes,
\* and runs up to its next await, to its end or to the exception it raises.
ResumeAfterAwait ==
    /\ pc = "awaiting"
    /\ LET tasks == context.cloud_uploads[cursor][2]
           policy == get_fail_task_on_error(context.clouds_config, context.release_bucket,
                                            context.cloud_uploads[cursor][1])
       IN /\ \A i \in 1..Len(tasks) : futures[tasks[i]] # "pending"
          /\ LET body == after_await(policy.val, tasks, futures)
                 step == loop_until_await(context.cloud_uploads, context.clouds_config,
                                          context.release_bucket, cursor + 1)
             IN /\ log' = log \o body.warnings
                /\ IF body.outcome.kind = "raise"
                   THEN pc' = "done" /\ ret' = body.outcome /\ cursor' = cursor
                   ELSE /\ cursor' = step.at
                        /\ IF step.outcome.kind = "await"
                           THEN pc' = "awaiting" /\ ret' = ret
                           ELSE pc' = "done" /\ ret' = step.outcome
    /\ UNCHANGED <<context, instant, futures, call>>

NextUploads == AwaitAndRaiseUploads \/ ResumeAfterAwait \/ UploadSucceeds \/ UploadFails

SpecUploads == InitUploads /\ [][NextUploads]_vars


-----------------------------------------------------------------------------
(* The join point of the uploads: what is checked. *)

JoinDone == pc = "done" /\ call.fn = "await_and_raise_uploads"

Targets == 1..Len(context.cloud_uploads)

QueueAt(i) == context.cloud_uploads[i][2]

\* The uploads queued on the i-th target.
UploadsAt(i) == {QueueAt(i)[k] : k \in 1..Len(QueueAt(i))}

\* The configuration marks the i-th target fail_task_on_error.
Marked(i) ==
    LET config == context.clouds_config[context.cloud_uploads[i][1]]
    IN /\ context.release_bucket \in DOMAIN config
       /\ "fail_task_on_error" \in DOMAIN config[context.release_bucket]
       /\ config[context.release_bucket].fail_task_on_error

\* The positions, in the queue of the i-th target, of its failed uploads.
FailedAt(i) == {k \in 1..Len(QueueAt(i)) : futures[QueueAt(i)[k]] = "failed"}

\* The marked targets with a failed upload.
MarkedAndFailed == {i \in Targets : Marked(i) /\ FailedAt(i) # {}}

\* C15: when a target marked fail_task_on_error has a failed upload,
\* await_and_raise_uploads does not return normally: it raises the first
\* exception, in the order of the queue, of the first such target it comes
\* to; and no step of the program takes back an upload that has finished.
C15_FailFastFailurePropagates ==
    /\ [](JoinDone /\ MarkedAndFailed # {} =>
             LET i == First(MarkedAndFailed)
             IN ret = UploadException(QueueAt(i)[First(FailedAt(i))]))
    /\ [][\A u \in DOMAIN futures : futures[u] # "pending" => futures'[u] = futures[u]]_vars

\* A marked target whose first upload succeeded and whose second failed:
\* the exception of the second is raised, and the first stays done.
C15_Witness ==
    /\ JoinDone
    /\ \E i \in Targets :
          /\ Marked(i)
          /\ Len(QueueAt(i)) = 2
          /\ futures[QueueAt(i)[1]] = "done"
          /\ futures[QueueAt(i)[2]] = "failed"
          /\ ret = UploadException(QueueAt(i)[2])


\* The i-th target has settings for the release bucket and is not marked
\* fail_task_on_error: the flag is false or not set.
BestEffort(i) ==
    /\ context.release_bucket \in DOMAIN context.clouds_config[context.cloud_uploads[i][1]]
    /\ ~Marked(i)

\* The loop has gone past the i-th target.
Passed(i) == call.fn = "await_and_raise_uploads" /\ cursor > i

\* The warnings logged about the upload.
WarningsAbout(u) == {k \in 1..Len(log) : log[k].level = "warning" /\ log[k].upload = u}

PendingAt(i) == \E u \in UploadsAt(i) : futures[u] = "pending"

\* C17: whatever the order of the targets, the call raises exactly when a
\* marked target has a failed upload: the failures of the other targets
\* have no part in it.  The uploads of a target are left unawaited only
\* behind a marked target whose exception was raised, never behind a
\* best-effort target, failed uploads or not.
C17_BestEffortNeverBlocks ==
    JoinDone =>
        /\ ret.kind = "raise" <=> MarkedAndFailed # {}
        /\ ret.kind = "raise" =>
              /\ Marked(cursor)
              /\ \E k \in FailedAt(cursor) : ret = UploadException(QueueAt(cursor)[k])
        /\ \A j \in Targets :
              PendingAt(j) => ret.kind = "raise" /\ cursor < j

\* A best-effort target with a failed upload comes before a marked target
\* whose uploads all succeed: the call returns, past both of them.
C17_Witness ==
    /\ JoinDone
    /\ ret = Return(None)
    /\ \E i, j \in Targets :
          /\ i < j
          /\ BestEffort(i) /\ FailedAt(i) # {}
          /\ Marked(j) /\ QueueAt(j) # <<>>
          /\ Passed(j)


\* The i-th target has no settings for the release bucket: reading its
\* policy would raise KeyError.
WithoutSettings(i) ==
    context.release_bucket \notin DOMAIN context.clouds_config[context.cloud_uploads[i][1]]

\* C18: when await_and_raise_uploads returns without raising, no upload
\* queued on any target is still pending.  A target with an empty queue is
\* passed over before its policy is read: one without settings for the
\* release bucket never makes the call raise KeyError.
C18_NothingPendingAtNormalExit ==
    JoinDone =>
        /\ ret.kind = "return" =>
              /\ ret = Return(None)
              /\ cursor = Len(context.cloud_uploads) + 1
              /\ \A u \in DOMAIN futures : futures[u] # "pending"
        /\ ret.kind = "raise" => ret.exc # KeyError

\* The call returns past a target with an empty queue and no settings for
\* the release bucket that comes first, and a target with uploads, which
\* have all finished.
C18_Witness ==
    /\ JoinDone
    /\ ret = Return(None)
    /\ WithoutSettings(1) /\ QueueAt(1) = <<>>
    /\ \E j \in Targets : Len(QueueAt(j)) >= 2 /\ ~PendingAt(j)


-----------------------------------------------------------------------------
(* utils.py: the artifact-map entry of an upstream artifact. *)

\* The longest artifact map given to extract_file_config_from_artifact_map.
MaxEntries == 2

\* key in d
DictHas(d, key) == \E i \in 1..Len(d) : d[i][1] = key

\* not d.get(key): the key is absent, or its value is an empty dict.
NotGet(d, key) == ~DictHas(d, key) \/ DictGetItem(d, key) = <<>>

NoEntryMessage(task_id, locale, path) ==
    <<"No artifact map entry for ">> \o task_id \o <<"/">> \o locale \o <<" ">> \o path

\* extract_file_config_from_artifact_map without the test of the locale.
RECURSIVE extract_file_config_any_locale(_, _, _, _)
extract_file_config_any_locale(artifact_map, path, task_id, locale) ==
    IF artifact_map = <<>>
    THEN Raise(TaskVerificationError, <<NoEntryMessage(task_id, locale, path)>>)
    ELSE LET entry == Head(artifact_map)
         IN IF entry.taskId # task_id
            THEN extract_file_config_any_locale(Tail(artifact_map), path, task_id, locale)
            ELSE IF NotGet(entry.paths, path)
            THEN extract_file_config_any_locale(Tail(artifact_map), path, task_id, locale)
            ELSE Return(DictGetItem(entry.paths, path))

RECURSIVE extract_file_config_from_artifact_map(_, _, _, _)
extract_file_config_from_artifact_map(artifact_map, path, task_id, locale) ==
    IF artifact_map = <<>>
    THEN Raise(TaskVerificationError, <<NoEntryMessage(task_id, locale, path)>>)
    ELSE LET entry == Head(artifact_map)
         IN IF entry.taskId # task_id \/ entry.locale # locale
            THEN extract_file_config_from_artifact_map(Tail(artifact_map), path, task_id, locale)
            ELSE IF NotGet(entry.paths, path)
            THEN extract_file_config_from_artifact_map(Tail(artifact_map), path, task_id, locale)
            ELSE Return(DictGetItem(entry.paths, path))

EntryLocales == {<<"en", "-", "US">>, <<"de">>}

EntryTaskIds == {TaskIdOf(1), TaskIdOf(2)}

\* The configurations of a path: two with destinations, and an empty one.
PathConfigs ==
    {[destinations |-> <<<<"pub", "/", "firefox", "/", "target", ".", "mar">>>>],
     [destinations |-> <<<<"pub", "/", "devedition", "/", "target", ".", "mar">>>>],
     <<>>}

\* The paths of an entry: the second path of the model, with or without the
\* first one before it.
EntryPaths ==
    {<<<<PathKey(2), [destinations |-> <<<<"pub", "/", "firefox", "/", "target", ".", "dmg">>>>]>>>>}
        \cup {<<<<PathKey(1), config>>,
                <<PathKey(2), [destinations |-> <<<<"pub", "/", "firefox", "/", "target", ".", "dmg">>>>]>>>> :
                 config \in PathConfigs}

ArtifactMapEntries == [taskId : EntryTaskIds, locale : EntryLocales, paths : EntryPaths]

InitArtifactMap ==
    /\ context \in {[artifact_map |-> artifact_map] :
                        artifact_map \in SeqsUpTo(ArtifactMapEntries, MaxEntries)}
    /\ pc = "ready"
    /\ call = [fn |-> "none"]
    /\ ret = [kind |-> "none"]
    /\ NoUploads
    /\ instant = BaseInstant

ExtractFileConfigFromArtifactMap ==
    /\ pc = "ready"
    /\ \E path \in {PathKey(1), PathKey(2), PathKey(3)}, task_id \in EntryTaskIds,
          locale \in EntryLocales :
          /\ call' = [fn |-> "extract_file_config_from_artifact_map",
                      path |-> path, task_id |-> task_id, locale |-> locale]
          /\ ret' = extract_file_config_from_artifact_map(context.artifact_map, path,
                                                          task_id, locale)
    /\ pc' = "done"
    /\ UNCHANGED <<context, instant, futures, cursor, log>>

NextArtifactMap == ExtractFileConfigFromArtifactMap

SpecArtifactMap == InitArtifactMap /\ [][NextArtifactMap]_vars

-----------------------------------------------------------------------------
(* The artifact-map entry: what is checked. *)

ExtractDone == pc = "done" /\ call.fn = "extract_file_config_from_artifact_map"

\* The entries of the requested task and locale.
EntriesOfRequest ==
    {e \in 1..Len(context.artifact_map) :
        /\ context.artifact_map[e].taskId = call.task_id
        /\ context.artifact_map[e].locale = call.locale}

\* Those whose paths contain the requested path.
EntriesWithPath ==
    {e \in EntriesOfRequest : DictHas(context.artifact_map[e].paths, call.path)}

\* Those whose paths give the requested path a configuration that is not
\* empty.
EntriesWithConfig ==
    {e \in EntriesWithPath :
        DictGetItem(context.artifact_map[e].paths, call.path) # <<>>}

\* C19, as claimed: the call returns the configuration that the first
\* entry of the requested task and locale whose paths contain the path
\* gives to the path, and raises TaskVerificationError when there is no such
\* entry.
C19_FirstEntryContainingPath ==
    ExtractDone =>
        IF EntriesWithPath = {}
        THEN ret.kind = "raise" /\ ret.exc = TaskVerificationError
        ELSE ret = Return(DictGetItem(context.artifact_map[First(EntriesWithPath)].paths,
                                      call.path))

\* C19, amended: the call returns the configuration that the first entry
\* of the requested task and locale whose paths give the path a non-empty
\* configuration gives to it, and raises TaskVerificationError, returning
\* nothing, when there is no such entry.
C19_FirstEntryWithConfiguration ==
    ExtractDone =>
        IF EntriesWithConfig = {}
        THEN ret = Raise(TaskVerificationError,
                         <<NoEntryMessage(call.task_id, call.locale, call.path)>>)
        ELSE ret = Return(DictGetItem(context.artifact_map[First(EntriesWithConfig)].paths,
                                      call.path))

\* Two entries of the requested task and locale hold the path: the first
\* with an empty configuration, the second with destinations, which are
\* returned.
C19_Witness ==
    /\ ExtractDone
    /\ EntriesWithPath = {1, 2}
    /\ EntriesWithConfig = {2}
    /\ ret.kind = "return"
    /\ ret.val.destinations # <<>>


-----------------------------------------------------------------------------
(* Partner repacks and the release exclusions: what is checked. *)

\* The partner-candidates prefixes of the release of the context.
PartnerPrefixes ==
    {get_partner_candidates_prefix(
         get_candidates_prefix(context.product, context.version, context.build_number).val,
         partner) : partner \in PartnerNames}

\* C20: a key that starts with the partner-candidates prefix of a partner,
\* built from the candidates prefix of a product, a version and a build
\* number, is excluded by matches_exclude with RELEASE_EXCLUDE, in whatever
\* order its patterns are tried; so a key for which get_partner_match
\* returns a partner is one that RELEASE_EXCLUDE excludes.
C20_PartnerKeysAreExcluded ==
    /\ (/\ MatchesDone
        /\ PatternsOf(call.excludes) = PatternsOf(RELEASE_EXCLUDE)
        /\ context.product \in DOMAIN PRODUCT_TO_PATH
        /\ \E prefix \in PartnerPrefixes : StartsWith(context.keyname, prefix))
           => ret = Return(TRUE)
    /\ (pc = "done" /\ call.fn = "get_partner_match")
           => /\ ret.kind = "return"
              /\ ~ret.val.is_none =>
                    /\ ret.val.val \in PartnerNames
                    /\ matches_exclude(context.keyname, RELEASE_EXCLUDE) = Return(TRUE)

\* The Firefox 100.0 tarball of partner acme-corp, a name that no other
\* pattern of RELEASE_EXCLUDE matches, is excluded.
C20_Witness ==
    /\ MatchesDone
    /\ call.excludes = RELEASE_EXCLUDE
    /\ context.keyname =
           Firefox100Build1 \o <<"partner", "-", "repacks", "/", "acme", "-", "corp", "/", "v1", "/",
                                 "firefox", "-", "100", ".", "0", ".", "tar", ".", "bz2">>
    /\ \A n \in 1..Len(RELEASE_EXCLUDE) :
          ReSearch(RELEASE_EXCLUDE[n], context.keyname) <=> n = 6
    /\ ret = Return(TRUE)

====
